---- MODULE Spec2Model ----
(***************************************************************************)
(* The Parnika Silks backend: orders and stock (src/routes/orders.js and   *)
(* the Order schema), the catalogue routes that write or delete products,  *)
(* the account and password-reset routes, the role route, the address      *)
(* book and the slides.                                                    *)
(*                                                                         *)
(* A handler is modelled twice.  As a function of the collections and the  *)
(* request it gives the response and the collections after a request that  *)
(* nothing interleaves.  As steps, one for each await of the handler, it   *)
(* runs on a connection; the steps of requests on different connections    *)
(* interleave.  A specification of requests executed one at a time lets a  *)
(* request arrive only when no other is in flight; SerialAgreement relates *)
(* the steps to the functions.  Product documents are reduced to their     *)
(* stock field, the only field the order workflow writes.  The slide       *)
(* routes are modelled as steps only.                                      *)
(***************************************************************************)
EXTENDS Integers, Sequences, FiniteSets, TLC

(***************************************************************************)
(* Bounds of the model.                                                    *)
(***************************************************************************)
MaxItems  == 2      \* line items of one create request
MaxQty    == 2      \* largest quantity of one line item
InitStock == 2      \* stock of every catalog product at start
MaxRaceItems == 1   \* line items of a create request that runs interleaved

(***************************************************************************)
(* Identifiers and request inputs.                                         *)
(***************************************************************************)
NoId == "none"                       \* an absent (falsy) id in a request body
CatalogIds == {"p1", "p2"}           \* products that exist at start
UnknownIds == {"p3"}                 \* well-formed ids of no product
MalformedIds == {"abc"}              \* strings that cannot be cast to an ObjectId
AllIds == CatalogIds \cup UnknownIds
IdOrNone == AllIds \cup {NoId}
Quantities == 1..MaxQty

Customers == {"u1"}                  \* callers with role "user"
Admins == {"a1"}                     \* callers with role "admin"
Users == Customers \cup Admins
Role(u) == IF u \in Admins THEN "admin" ELSE "user"

OrderStatuses == {"pending", "processing", "shipped", "delivered", "cancelled"}
StatusInputs == OrderStatuses \cup {"returned"}   \* a value outside the enum
PaymentMethodEnum == {"cod", "online"}
PaymentInputs == {"cod", "upi"}      \* one accepted, one outside the enum
TrackingCodes == {"TRK1", "TRK2"}    \* outcomes of Date.now() + random suffix
MaxOrders == Cardinality(TrackingCodes)   \* the unique index admits no more
Reasons == {"changed my mind"}

\* A line item of a create request: body items carry an optional _id and an
\* optional product reference.  Most requests explored name the product in
\* the product field and carry no _id.  An item that names its product by
\* _id alone, an item without any product id, an item with the id of no
\* product and an item whose id is no ObjectId are explored with quantity 1.
\* The validators of the route check the quantity and the price of an item,
\* not its ids.
IdItemIds == {"p1"}                  \* the _id of the items that carry one
ReqItems ==
  [id : {NoId}, product : CatalogIds, quantity : Quantities] \cup
  [id : {NoId}, product : UnknownIds \cup MalformedIds \cup {NoId}, quantity : {1}] \cup
  [id : IdItemIds, product : {NoId}, quantity : {1}]
ReqItemLists == UNION {[1..n -> ReqItems] : n \in 1..MaxItems}

(***************************************************************************)
(* State.                                                                  *)
(***************************************************************************)
VARIABLES
  stock,    \* Product collection: id of an existing product -> its stock
  orders,   \* Order collection: sequence of persisted order documents
  race,     \* the requests of the order and catalog routes in flight: the
            \* position and the locals of the handler of each connection
  hist      \* history: the two collections as they were when a request
            \* arrived while no other was in flight

\* The totals computed for a create request, with the request's priced items
\* and the delivery attributes of the products (NoCalc before a computation).
VARIABLE calc

\* Password reset: the user documents, the clock in milliseconds, the record
\* of what the requests did, and the position and the locals of the handler
\* of each connection.
VARIABLES accounts, now, pwd, resetreq

\* Role updates: the role of every user document, and the position and the
\* locals of each caller's role-update request.
VARIABLES roles, rolereq

\* The address list of one user with its version and the number of address
\* ids given out, and the position and the locals of the handler of each
\* connection.
VARIABLES book, bookreq

\* The slides, the files of the image bucket, the upload streams still
\* running after their timer fired, the number of slide and file ids given
\* out and the answer of the update that was answered last; the position
\* and the locals of the handler of each connection of the slide routes.
VARIABLES gallery, slidereq

\* The variables of the order workflow.
shop == <<stock, orders, race, hist, calc>>

\* The variables of the account and content routes.
site == <<accounts, now, pwd, resetreq, roles, rolereq, book, bookreq, gallery, slidereq>>

vars == <<shop, site>>

NoHistory == [stock |-> <<>>, orders |-> <<>>]
NoMail == [customer |-> "none", admin |-> "none"]
NoCalc == [items |-> <<>>]

(***************************************************************************)
(* Order schema and document store.                                        *)
(***************************************************************************)
\* Paths of the Order schema that the model tracks.  Mongoose (strict mode)
\* saves only schema paths: a property set on a document that the schema
\* does not declare is not written to the store.
OrderSchemaPaths == {"user", "items", "status", "paymentMethod", "trackingNumber"}

\* The cast of a string to an ObjectId, in a query by id and in a path of
\* type ObjectId: it fails for a string that is no ObjectId.
CastsToObjectId(pid) == pid \notin MalformedIds

\* Validation of an order document before it is written: the required item
\* product, an ObjectId, and the two enums.
OrderDocValid(doc) ==
  /\ \A i \in 1..Len(doc.items) :
        doc.items[i].product # NoId /\ CastsToObjectId(doc.items[i].product)
  /\ doc.status \in OrderStatuses
  /\ doc.paymentMethod \in PaymentMethodEnum

\* The unique index on trackingNumber (others = the documents of the
\* collection other than the one being written).
TrackingUnique(doc, others) ==
  \A j \in 1..Len(others) : others[j].trackingNumber # doc.trackingNumber

\* Mutant of OrderValid: the collection has no unique index.
OrderValidNoIndex(doc, others) == OrderDocValid(doc)

\* order.save() succeeds: the document is valid and the store accepts it.
OrderValid(doc, others) == OrderDocValid(doc) /\ TrackingUnique(doc, others)

\* error.message of a failed order.save(): validation runs before the write.
SaveError(doc) == IF OrderDocValid(doc) THEN "duplicate_key" ELSE "validation"

\* What save writes: the document restricted to the schema's paths.
OrderPersisted(doc) ==
  [f \in (DOMAIN doc) \cap OrderSchemaPaths |-> doc[f]]

\* Product.findById(pid) of an id that casts: the product, or null.
ProductExists(stk, pid) == pid \in DOMAIN stk

\* product.save() after an assignment to product.stock
ProductSave(stk, pid, value) == [stk EXCEPT ![pid] = value]

(***************************************************************************)
(* POST /orders                                                            *)
(***************************************************************************)
\* const productId = item._id || item.product
ReqProductId(item) == IF item.id # NoId THEN item.id ELSE item.product

\* Mutant of CheckItem: the check refuses only a product that is out of
\* stock, whatever the quantity asked.
CheckItemOutOfStockOnly(item, stk) ==
  LET pid == ReqProductId(item) IN
  IF pid = NoId THEN "missing_id"
  ELSE IF ~CastsToObjectId(pid) THEN "cast_error"
  ELSE IF ~ProductExists(stk, pid) THEN "not_found"
  ELSE IF stk[pid] <= 0 THEN "insufficient"
  ELSE "ok"

\* One iteration of the stock validation loop: the check of one item.
\* Product.findById rejects with a cast error when the id is no ObjectId.
CheckItem(item, stk) ==
  LET pid == ReqProductId(item) IN
  IF pid = NoId THEN "missing_id"
  ELSE IF ~CastsToObjectId(pid) THEN "cast_error"
  ELSE IF ~ProductExists(stk, pid) THEN "not_found"
  ELSE IF stk[pid] < item.quantity THEN "insufficient"
  ELSE "ok"

\* The stock validation loop: the first failure among the items from i on,
\* or "ok".
RECURSIVE ValidateItems(_, _, _)
ValidateItems(items, i, stk) ==
  IF i > Len(items) THEN "ok"
  ELSE IF CheckItem(items[i], stk) # "ok" THEN CheckItem(items[i], stk)
  ELSE ValidateItems(items, i + 1, stk)

\* Mutant of DecrementItems: the loop stops after the item it starts with.
DecrementItemsFirstOnly(items, i, stk) ==
  IF i > Len(items) THEN [stock |-> stk, threw |-> FALSE]
  ELSE LET pid == ReqProductId(items[i]) IN
       IF ~ProductExists(stk, pid) THEN [stock |-> stk, threw |-> TRUE]
       ELSE [stock |-> ProductSave(stk, pid, stk[pid] - items[i].quantity),
             threw |-> FALSE]

\* The stock decrement loop over the items from i on.  A product that is
\* gone makes the handler throw (product is null); the products already
\* saved stay saved.
RECURSIVE DecrementItems(_, _, _)
DecrementItems(items, i, stk) ==
  IF i > Len(items) THEN [stock |-> stk, threw |-> FALSE]
  ELSE LET pid == ReqProductId(items[i]) IN
       IF ~ProductExists(stk, pid) THEN [stock |-> stk, threw |-> TRUE]
       ELSE DecrementItems(items, i + 1,
                           ProductSave(stk, pid, stk[pid] - items[i].quantity))

\* new Order({...}): the items keep product and quantity of the body items.
NewOrder(u, items, pm, trk) ==
  [user |-> u,
   items |-> [i \in 1..Len(items) |->
                [product |-> items[i].product, quantity |-> items[i].quantity]],
   status |-> "pending",
   paymentMethod |-> pm,
   trackingNumber |-> trk]

\* The handler of POST /orders as a function of the two collections and the
\* request: the collections it leaves and its response.
PostOrders(stk, ords, u, items, pm, trk) ==
  LET v == ValidateItems(items, 1, stk)
      doc == NewOrder(u, items, pm, trk)
      d == DecrementItems(items, 1, stk)
  IN  IF v = "cast_error"
      THEN [stock |-> stk, orders |-> ords,
            resp |-> [op |-> "create", code |-> 500, msg |-> "error"]]
      ELSE IF v # "ok"
      THEN [stock |-> stk, orders |-> ords,
            resp |-> [op |-> "create", code |-> 400, msg |-> v]]
      ELSE IF ~OrderValid(doc, ords)
      THEN [stock |-> stk, orders |-> ords,
            resp |-> [op |-> "create", code |-> 500, msg |-> SaveError(doc)]]
      ELSE [stock |-> d.stock, orders |-> Append(ords, OrderPersisted(doc)),
            resp |-> IF d.threw
                     THEN [op |-> "create", code |-> 500, msg |-> "error"]
                     ELSE [op |-> "create", code |-> 201, msg |-> "ok"]]

(***************************************************************************)
(* Stock release and reapply over the items of a persisted order.          *)
(***************************************************************************)
\* const productId = item.product || item._id.  A persisted item always has
\* its product (the schema requires it), so the fallback is never taken.
DocProductId(item) == item.product

\* Mutant of ReleaseItems: every item restores one unit, not its quantity.
RECURSIVE ReleaseItemsByOne(_, _, _)
ReleaseItemsByOne(items, i, stk) ==
  IF i > Len(items) THEN stk
  ELSE LET pid == DocProductId(items[i]) IN
       IF ProductExists(stk, pid)
       THEN ReleaseItemsByOne(items, i + 1, ProductSave(stk, pid, stk[pid] + 1))
       ELSE ReleaseItemsByOne(items, i + 1, stk)

\* Mutant of ReleaseItems: the loop ends at the first product not found.
RECURSIVE ReleaseItemsUntilMissing(_, _, _)
ReleaseItemsUntilMissing(items, i, stk) ==
  IF i > Len(items) THEN stk
  ELSE LET pid == DocProductId(items[i]) IN
       IF ProductExists(stk, pid)
       THEN ReleaseItemsUntilMissing(items, i + 1,
                                     ProductSave(stk, pid, stk[pid] + items[i].quantity))
       ELSE stk

\* The restore loop of the two cancelling handlers, from item i on: a
\* product that is not found is skipped.
RECURSIVE ReleaseItems(_, _, _)
ReleaseItems(items, i, stk) ==
  IF i > Len(items) THEN stk
  ELSE LET pid == DocProductId(items[i]) IN
       IF ProductExists(stk, pid)
       THEN ReleaseItems(items, i + 1,
                         ProductSave(stk, pid, stk[pid] + items[i].quantity))
       ELSE ReleaseItems(items, i + 1, stk)

\* Mutant of ReapplyItems: the loop deducts without the sufficiency check.
RECURSIVE ReapplyItemsUnchecked(_, _, _)
ReapplyItemsUnchecked(items, i, stk) ==
  IF i > Len(items) THEN [stock |-> stk, failed |-> FALSE, product |-> NoId]
  ELSE LET pid == DocProductId(items[i]) IN
       IF ~ProductExists(stk, pid) THEN ReapplyItemsUnchecked(items, i + 1, stk)
       ELSE ReapplyItemsUnchecked(items, i + 1,
                                  ProductSave(stk, pid, stk[pid] - items[i].quantity))

\* Mutant of ReapplyItems: a failure undoes the deductions made for the
\* items before the failing one.
RECURSIVE ReapplyItemsRollback(_, _, _)
ReapplyItemsRollback(items, i, stk) ==
  IF i > Len(items) THEN [stock |-> stk, failed |-> FALSE, product |-> NoId]
  ELSE LET pid == DocProductId(items[i]) IN
       IF ~ProductExists(stk, pid) THEN ReapplyItemsRollback(items, i + 1, stk)
       ELSE IF stk[pid] < items[i].quantity
       THEN [stock |-> ReleaseItems(SubSeq(items, 1, i - 1), 1, stk),
             failed |-> TRUE, product |-> pid]
       ELSE ReapplyItemsRollback(items, i + 1,
                                 ProductSave(stk, pid, stk[pid] - items[i].quantity))

\* The re-deduction loop of the status handler, from item i on: it returns
\* at the first item whose product lacks stock, keeping the saves made for
\* the items before it.  product is the product the 400 response names.
RECURSIVE ReapplyItems(_, _, _)
ReapplyItems(items, i, stk) ==
  IF i > Len(items) THEN [stock |-> stk, failed |-> FALSE, product |-> NoId]
  ELSE LET pid == DocProductId(items[i]) IN
       IF ~ProductExists(stk, pid) THEN ReapplyItems(items, i + 1, stk)
       ELSE IF stk[pid] < items[i].quantity
       THEN [stock |-> stk, failed |-> TRUE, product |-> pid]
       ELSE ReapplyItems(items, i + 1,
                         ProductSave(stk, pid, stk[pid] - items[i].quantity))

\* The other documents of the collection, for the unique index.
OtherOrders(ords, oid) ==
  [j \in 1..(Len(ords) - 1) |-> IF j < oid THEN ords[j] ELSE ords[j + 1]]

(***************************************************************************)
(* PUT /orders/:id/status                                                  *)
(***************************************************************************)
\* Mutant of PutOrderStatus: stock is restored whenever the new status is
\* cancelled, also when the order is cancelled already.
PutOrderStatusReleaseAlways(stk, ords, u, oid, status) ==
  IF Role(u) # "admin"
  THEN [stock |-> stk, orders |-> ords, effect |-> "none",
        resp |-> [op |-> "status", code |-> 403, msg |-> "denied"]]
  ELSE IF oid > Len(ords)
  THEN [stock |-> stk, orders |-> ords, effect |-> "none",
        resp |-> [op |-> "status", code |-> 404, msg |-> "no_order"]]
  ELSE
    LET order == ords[oid]
        previousStatus == order.status
        release == status = "cancelled"
        reapply == previousStatus = "cancelled" /\ status # "cancelled"
        restored == IF release THEN ReleaseItems(order.items, 1, stk) ELSE stk
        deducted == IF reapply THEN ReapplyItems(order.items, 1, restored)
                    ELSE [stock |-> restored, failed |-> FALSE, product |-> NoId]
        effect == IF release THEN "release" ELSE IF reapply THEN "reapply" ELSE "none"
        doc == [order EXCEPT !.status = status]
    IN  IF deducted.failed
        THEN [stock |-> deducted.stock, orders |-> ords, effect |-> effect,
              resp |-> [op |-> "status", code |-> 400, msg |-> "insufficient",
                        product |-> deducted.product]]
        ELSE IF ~OrderValid(doc, OtherOrders(ords, oid))
        THEN [stock |-> deducted.stock, orders |-> ords, effect |-> effect,
              resp |-> [op |-> "status", code |-> 500, msg |-> "error"]]
        ELSE [stock |-> deducted.stock,
              orders |-> [ords EXCEPT ![oid] = OrderPersisted(doc)],
              effect |-> effect,
              resp |-> [op |-> "status", code |-> 200, msg |-> "ok"]]

\* The handler as a function of the collections and the request.  effect
\* tells which stock loop ran.
PutOrderStatus(stk, ords, u, oid, status) ==
  IF Role(u) # "admin"
  THEN [stock |-> stk, orders |-> ords, effect |-> "none",
        resp |-> [op |-> "status", code |-> 403, msg |-> "denied"]]
  ELSE IF oid > Len(ords)
  THEN [stock |-> stk, orders |-> ords, effect |-> "none",
        resp |-> [op |-> "status", code |-> 404, msg |-> "no_order"]]
  ELSE
    LET order == ords[oid]
        previousStatus == order.status
        release == status = "cancelled" /\ previousStatus # "cancelled"
        reapply == previousStatus = "cancelled" /\ status # "cancelled"
        restored == IF release THEN ReleaseItems(order.items, 1, stk) ELSE stk
        deducted == IF reapply THEN ReapplyItems(order.items, 1, restored)
                    ELSE [stock |-> restored, failed |-> FALSE, product |-> NoId]
        effect == IF release THEN "release" ELSE IF reapply THEN "reapply" ELSE "none"
        doc == [order EXCEPT !.status = status]
    IN  IF deducted.failed
        THEN [stock |-> deducted.stock, orders |-> ords, effect |-> effect,
              resp |-> [op |-> "status", code |-> 400, msg |-> "insufficient",
                        product |-> deducted.product]]
        ELSE IF ~OrderValid(doc, OtherOrders(ords, oid))
        THEN [stock |-> deducted.stock, orders |-> ords, effect |-> effect,
              resp |-> [op |-> "status", code |-> 500, msg |-> "error"]]
        ELSE [stock |-> deducted.stock,
              orders |-> [ords EXCEPT ![oid] = OrderPersisted(doc)],
              effect |-> effect,
              resp |-> [op |-> "status", code |-> 200, msg |-> "ok"]]

(***************************************************************************)
(* POST /orders/:id/cancel                                                 *)
(***************************************************************************)
\* Mutant of PostOrderCancel: only an order that is cancelled already is
\* refused.
PostOrderCancelNotCancelled(stk, ords, u, oid, reason) ==
  IF oid > Len(ords)
  THEN [stock |-> stk, orders |-> ords, effect |-> "none",
        resp |-> [op |-> "cancel", code |-> 404, msg |-> "no_order"]]
  ELSE IF ords[oid].user # u
  THEN [stock |-> stk, orders |-> ords, effect |-> "none",
        resp |-> [op |-> "cancel", code |-> 403, msg |-> "denied"]]
  ELSE IF ords[oid].status = "cancelled"
  THEN [stock |-> stk, orders |-> ords, effect |-> "none",
        resp |-> [op |-> "cancel", code |-> 400, msg |-> "not_pending"]]
  ELSE
    LET order == ords[oid]
        \* order.status = 'cancelled'; order.cancellationReason = reason
        doc == [f \in (DOMAIN order) \cup {"cancellationReason"} |->
                  IF f = "status" THEN "cancelled"
                  ELSE IF f = "cancellationReason" THEN reason
                  ELSE order[f]]
    IN  [stock |-> ReleaseItems(order.items, 1, stk),
         orders |-> [ords EXCEPT ![oid] = OrderPersisted(doc)],
         effect |-> "release",
         resp |-> [op |-> "cancel", code |-> 200, msg |-> "ok"]]

PostOrderCancel(stk, ords, u, oid, reason) ==
  IF oid > Len(ords)
  THEN [stock |-> stk, orders |-> ords, effect |-> "none",
        resp |-> [op |-> "cancel", code |-> 404, msg |-> "no_order"]]
  ELSE IF ords[oid].user # u
  THEN [stock |-> stk, orders |-> ords, effect |-> "none",
        resp |-> [op |-> "cancel", code |-> 403, msg |-> "denied"]]
  ELSE IF ords[oid].status # "pending"
  THEN [stock |-> stk, orders |-> ords, effect |-> "none",
        resp |-> [op |-> "cancel", code |-> 400, msg |-> "not_pending"]]
  ELSE
    LET order == ords[oid]
        \* order.status = 'cancelled'; order.cancellationReason = reason
        doc == [f \in (DOMAIN order) \cup {"cancellationReason"} |->
                  IF f = "status" THEN "cancelled"
                  ELSE IF f = "cancellationReason" THEN reason
                  ELSE order[f]]
    IN  [stock |-> ReleaseItems(order.items, 1, stk),
         orders |-> [ords EXCEPT ![oid] = OrderPersisted(doc)],
         effect |-> "release",
         resp |-> [op |-> "cancel", code |-> 200, msg |-> "ok"]]

(***************************************************************************)
(* POST /orders/:id/refund                                                 *)
(***************************************************************************)
BankDetails == {"acct1"}

\* Mutant of PostOrderRefund: the owner check is skipped for administrators.
PostOrderRefundAdminAllowed(stk, ords, u, oid, bankDetails) ==
  IF oid > Len(ords)
  THEN [stock |-> stk, orders |-> ords, effect |-> "none",
        resp |-> [op |-> "refund", code |-> 404, msg |-> "no_order"]]
  ELSE IF ords[oid].user # u /\ Role(u) # "admin"
  THEN [stock |-> stk, orders |-> ords, effect |-> "none",
        resp |-> [op |-> "refund", code |-> 403, msg |-> "denied"]]
  ELSE IF ords[oid].status # "cancelled"
  THEN [stock |-> stk, orders |-> ords, effect |-> "none",
        resp |-> [op |-> "refund", code |-> 400, msg |-> "not_cancelled"]]
  ELSE
    LET order == ords[oid]
        doc == [f \in (DOMAIN order) \cup {"refundDetails"} |->
                  IF f = "refundDetails" THEN bankDetails ELSE order[f]]
    IN  [stock |-> stk,
         orders |-> [ords EXCEPT ![oid] = OrderPersisted(doc)],
         effect |-> "none",
         resp |-> [op |-> "refund", code |-> 200, msg |-> "ok"]]

PostOrderRefund(stk, ords, u, oid, bankDetails) ==
  IF oid > Len(ords)
  THEN [stock |-> stk, orders |-> ords, effect |-> "none",
        resp |-> [op |-> "refund", code |-> 404, msg |-> "no_order"]]
  ELSE IF ords[oid].user # u
  THEN [stock |-> stk, orders |-> ords, effect |-> "none",
        resp |-> [op |-> "refund", code |-> 403, msg |-> "denied"]]
  ELSE IF ords[oid].status # "cancelled"
  THEN [stock |-> stk, orders |-> ords, effect |-> "none",
        resp |-> [op |-> "refund", code |-> 400, msg |-> "not_cancelled"]]
  ELSE
    LET order == ords[oid]
        \* order.refundDetails = bankDetails
        doc == [f \in (DOMAIN order) \cup {"refundDetails"} |->
                  IF f = "refundDetails" THEN bankDetails ELSE order[f]]
    IN  [stock |-> stk,
         orders |-> [ords EXCEPT ![oid] = OrderPersisted(doc)],
         effect |-> "none",
         resp |-> [op |-> "refund", code |-> 200, msg |-> "ok"]]

(***************************************************************************)
(* POST /orders: subtotal, delivery charges and total amount.              *)
(***************************************************************************)
MaxCalcItems == 2                    \* line items of a priced create request
FREE_DELIVERY_THRESHOLD == 1000
Prices == {0, 499, 500, 999, 1000}   \* caller-supplied unit prices
UnitCharges == {0, 50}               \* product.deliveryCharges || 0
Applicable == {"true", "false", "undefined"}   \* product.deliveryChargesApplicable

PricedItems == [product : CatalogIds, quantity : Quantities, price : Prices]
PricedItemLists == UNION {[1..n -> PricedItems] : n \in 1..MaxCalcItems}
DeliveryAttributes ==
  [CatalogIds -> [deliveryCharges : UnitCharges, deliveryChargesApplicable : Applicable]]

\* items.reduce((total, item) => total + item.price * item.quantity, 0),
\* over the items from i on with total as accumulated so far.
RECURSIVE Subtotal(_, _, _)
Subtotal(items, i, total) ==
  IF i > Len(items) THEN total
  ELSE Subtotal(items, i + 1, total + items[i].price * items[i].quantity)

\* Mutant of DeliveryCharges: delivery is free only above the threshold.
RECURSIVE DeliveryChargesAbove(_, _, _, _, _)
DeliveryChargesAbove(items, i, attrs, subtotal, charges) ==
  IF i > Len(items)
  THEN IF subtotal > FREE_DELIVERY_THRESHOLD THEN 0 ELSE charges
  ELSE LET product == attrs[items[i].product] IN
       IF subtotal <= FREE_DELIVERY_THRESHOLD /\ product.deliveryChargesApplicable # "false"
       THEN DeliveryChargesAbove(items, i + 1, attrs, subtotal,
                                 charges + product.deliveryCharges * items[i].quantity)
       ELSE DeliveryChargesAbove(items, i + 1, attrs, subtotal, charges)

\* The accumulation of deliveryCharges in the validation loop, from item i
\* on, and the reset after the loop.
RECURSIVE DeliveryCharges(_, _, _, _, _)
DeliveryCharges(items, i, attrs, subtotal, charges) ==
  IF i > Len(items)
  THEN IF subtotal >= FREE_DELIVERY_THRESHOLD THEN 0 ELSE charges
  ELSE LET product == attrs[items[i].product] IN
       IF subtotal < FREE_DELIVERY_THRESHOLD /\ product.deliveryChargesApplicable # "false"
       THEN DeliveryCharges(items, i + 1, attrs, subtotal,
                            charges + product.deliveryCharges * items[i].quantity)
       ELSE DeliveryCharges(items, i + 1, attrs, subtotal, charges)

\* subtotal, deliveryCharges and totalAmount of a create request.
OrderTotals(items, attrs) ==
  LET subtotal == Subtotal(items, 1, 0)
      deliveryCharges == DeliveryCharges(items, 1, attrs, subtotal, 0)
  IN  [subtotal |-> subtotal, deliveryCharges |-> deliveryCharges,
       totalAmount |-> subtotal + deliveryCharges]

\* The handler computes the totals of a request whose items pass the stock
\* validation.
ComputeTotals(items, attrs) ==
  /\ calc = NoCalc
  /\ calc' = [items |-> items, attrs |-> attrs, totals |-> OrderTotals(items, attrs)]
  /\ UNCHANGED <<stock, orders, race, hist, site>>

(***************************************************************************)
(* The notification mails and the routes of the admin router that write    *)
(* an order or a product, as functions of the collections and the request. *)
(***************************************************************************)
MaxFlowItems == 1                    \* line items of a create request of the
                                     \* whole workflow
MaxStock == 3                        \* requests that would raise a stock above
                                     \* this are not explored
Strangers == {"u2"}                  \* customers who own no order
FlowUsers == Users \cup Strangers
FlowItemLists == UNION {[1..n -> ReqItems] : n \in 1..MaxFlowItems}

\* What a call of sendEmail does: it resolves with success, resolves with
\* a failure result, or throws.  The mail to the administrator is skipped
\* when ADMIN_EMAIL is not configured.
MailOutcomes == {"sent", "failed", "threw"}
AdminMailOutcomes == MailOutcomes \cup {"skipped"}
MailPairs == [customer : MailOutcomes, admin : AdminMailOutcomes]
AllSent == [customer |-> "sent", admin |-> "sent"]

\* Mutant of TrySendEmail: no try/catch around the call.
TrySendEmailUncaught(outcome) ==
  IF outcome = "threw" THEN "uncaught"
  ELSE IF outcome = "failed" THEN "logged_failure"
  ELSE IF outcome = "skipped" THEN "skipped"
  ELSE "logged_sent"

\* try { result = await sendEmail(...); log by result.success } catch { log }
TrySendEmail(outcome) ==
  IF outcome = "threw" THEN "caught"
  ELSE IF outcome = "failed" THEN "logged_failure"
  ELSE IF outcome = "skipped" THEN "skipped"
  ELSE "logged_sent"

\* POST /orders with its two mails: they are sent after the decrement loop
\* and before the response; an exception that leaves a mail block reaches
\* the handler's catch.
PostOrdersNotify(stk, ords, u, items, pm, trk, m) ==
  LET r == PostOrders(stk, ords, u, items, pm, trk)
      customer == TrySendEmail(m.customer)
      admin == TrySendEmail(m.admin)
  IN  IF r.resp.code # 201 THEN r
      ELSE IF customer = "uncaught" \/ admin = "uncaught"
      THEN [r EXCEPT !.resp = [op |-> "create", code |-> 500, msg |-> "error"]]
      ELSE r

\* PUT /orders/:id/status with its mail to the customer, sent after
\* order.save() and before the response.
PutOrderStatusNotify(stk, ords, u, oid, status, m) ==
  LET r == PutOrderStatus(stk, ords, u, oid, status)
      customer == TrySendEmail(m)
  IN  IF r.resp.code # 200 THEN r
      ELSE IF customer = "uncaught"
      THEN [r EXCEPT !.resp = [op |-> "status", code |-> 500, msg |-> "error"]]
      ELSE r

\* Mutant of PostVerifyPayment: the route verifies the payment and leaves
\* the status alone.
PostVerifyPaymentStatusKept(stk, ords, oid) ==
  IF oid > Len(ords)
  THEN [stock |-> stk, orders |-> ords, effect |-> "none",
        resp |-> [op |-> "verify", code |-> 404, msg |-> "no_order"]]
  ELSE [stock |-> stk, orders |-> ords, effect |-> "none",
        resp |-> [op |-> "verify", code |-> 200, msg |-> "ok"]]

\* POST /orders/:orderId/verify-payment of the admin router: the route has
\* no middleware, the caller is not identified.  paymentDetails is not
\* tracked.
PostVerifyPayment(stk, ords, oid) ==
  IF oid > Len(ords)
  THEN [stock |-> stk, orders |-> ords, effect |-> "none",
        resp |-> [op |-> "verify", code |-> 404, msg |-> "no_order"]]
  ELSE
    LET doc == [ords[oid] EXCEPT !.status = "processing"]
    IN  IF ~OrderValid(doc, OtherOrders(ords, oid))
        THEN [stock |-> stk, orders |-> ords, effect |-> "none",
              resp |-> [op |-> "verify", code |-> 500, msg |-> "error"]]
        ELSE [stock |-> stk,
              orders |-> [ords EXCEPT ![oid] = OrderPersisted(doc)],
              effect |-> "none",
              resp |-> [op |-> "verify", code |-> 200, msg |-> "ok"]]

(***************************************************************************)
(* The product routes of the admin router.                                 *)
(***************************************************************************)
\* The stock field of a product form: absent, or a string.
NoField == "undefined"
StockFields == {NoField, "", "0", "2", "-1", "abc"}

\* parseInt(stock) || 0
ParseStock(field) ==
  IF field = "2" THEN 2
  ELSE IF field = "-1" THEN -1
  ELSE 0

\* if (stock): the field is there and is not the empty string.
FieldGiven(field) == field \notin {NoField, ""}

\* parseInt(stock) gives a number; of the other fields it gives NaN, which
\* the schema cannot cast to a Number.
IsNumber(field) == field \in {"0", "2", "-1"}

\* The id the store gives the next product.  No id is given twice; a
\* product can take the id of a product that is gone only when nothing
\* refers to that product any more, which is then the same as a new id.
NewProductIds == UnknownIds

\* DELETE /admin/products/:id.  unlinked tells whether the removal of the
\* image files went through: fs.unlinkSync throws on a path that cannot be
\* unlinked, before the product is deleted.
DeleteAdminProduct(stk, u, pid, unlinked) ==
  IF Role(u) # "admin"
  THEN [stock |-> stk, resp |-> [op |-> "delete", code |-> 403, msg |-> "denied"]]
  ELSE IF ~ProductExists(stk, pid)
  THEN [stock |-> stk, resp |-> [op |-> "delete", code |-> 404, msg |-> "not_found"]]
  ELSE IF ~unlinked
  THEN [stock |-> stk, resp |-> [op |-> "delete", code |-> 500, msg |-> "error"]]
  ELSE [stock |-> [p \in (DOMAIN stk) \ {pid} |-> stk[p]],
        resp |-> [op |-> "delete", code |-> 200, msg |-> "ok"]]

\* product.save() of a document read with the stock read: a path assigned
\* the value it was read with is not modified, and the save leaves it as
\* the store has it.
ProductWritten(stk, pid, read, value) ==
  IF value = read THEN stk ELSE ProductSave(stk, pid, value)

\* PUT /admin/products/:id, reduced to the stock field of the form.
PutAdminProduct(stk, u, pid, field) ==
  IF Role(u) # "admin"
  THEN [stock |-> stk, resp |-> [op |-> "edit", code |-> 403, msg |-> "denied"]]
  ELSE IF ~ProductExists(stk, pid)
  THEN [stock |-> stk, resp |-> [op |-> "edit", code |-> 404, msg |-> "not_found"]]
  ELSE [stock |-> IF FieldGiven(field)
                  THEN ProductWritten(stk, pid, stk[pid], ParseStock(field))
                  ELSE stk,
        resp |-> [op |-> "edit", code |-> 200, msg |-> "ok"]]

\* PUT /products/:id of the product router: parseInt(stock) with no
\* fallback, and every error is answered 400.
PutProduct(stk, u, pid, field) ==
  IF Role(u) # "admin"
  THEN [stock |-> stk, resp |-> [op |-> "put", code |-> 403, msg |-> "denied"]]
  ELSE IF ~ProductExists(stk, pid)
  THEN [stock |-> stk, resp |-> [op |-> "put", code |-> 404, msg |-> "not_found"]]
  ELSE IF FieldGiven(field) /\ ~IsNumber(field)
  THEN [stock |-> stk, resp |-> [op |-> "put", code |-> 400, msg |-> "error"]]
  ELSE [stock |-> IF FieldGiven(field)
                  THEN ProductWritten(stk, pid, stk[pid], ParseStock(field))
                  ELSE stk,
        resp |-> [op |-> "put", code |-> 200, msg |-> "ok"]]

\* POST /admin/products.  complete tells whether name, description, price
\* and category are all given; pid is the id the store gives the product.
PostAdminProduct(stk, u, pid, field, complete) ==
  IF Role(u) # "admin"
  THEN [stock |-> stk, resp |-> [op |-> "add", code |-> 403, msg |-> "denied"]]
  ELSE IF ~complete
  THEN [stock |-> stk, resp |-> [op |-> "add", code |-> 400, msg |-> "missing_fields"]]
  ELSE [stock |-> [p \in (DOMAIN stk) \cup {pid} |->
                     IF p = pid THEN ParseStock(field) ELSE stk[p]],
        resp |-> [op |-> "add", code |-> 201, msg |-> "ok"]]

\* POST /products of the product router: the stock is among the required
\* fields, parseInt(stock) has no fallback, and every error is answered 400.
PostProduct(stk, u, pid, field, complete) ==
  IF Role(u) # "admin"
  THEN [stock |-> stk, resp |-> [op |-> "post", code |-> 403, msg |-> "denied"]]
  ELSE IF ~complete \/ ~FieldGiven(field)
  THEN [stock |-> stk, resp |-> [op |-> "post", code |-> 400, msg |-> "missing_fields"]]
  ELSE IF ~IsNumber(field)
  THEN [stock |-> stk, resp |-> [op |-> "post", code |-> 400, msg |-> "error"]]
  ELSE [stock |-> [p \in (DOMAIN stk) \cup {pid} |->
                     IF p = pid THEN ParseStock(field) ELSE stk[p]],
        resp |-> [op |-> "post", code |-> 201, msg |-> "ok"]]

\* The status updates explored over a catalog that changes: one status
\* that holds stock and the one that releases it.
CatalogStatusInputs == {"processing", "cancelled"}

(***************************************************************************)
(* The handlers step by step.  Every await of a handler is a point where   *)
(* the handler of another request can run: a step below is the answer of   *)
(* the store to one operation together with the stretch of the handler up  *)
(* to its next await.  A connection carries one request at a time.         *)
(***************************************************************************)
Clients == {"c1", "c2"}              \* connections of the storefront
Staff == {"s1"}                      \* a connection of the admin panel
Slots == Clients \cup Staff
RaceItemLists == UNION {[1..n -> ReqItems] : n \in 1..MaxRaceItems}
OrderIds == 1..MaxOrders

\* The locals of a handler.  early and wrote are history: the products a
\* create request checked before another request saved a decrement of
\* them, and the products of which it saved a decrement itself.
IdleClient ==
  [pc |-> "idle", op |-> "none", user |-> "none", items |-> <<>>, pm |-> "none",
   trk |-> "none", oid |-> 0, arg |-> "none", pid |-> NoId, i |-> 0, read |-> 0,
   prev |-> "none", effect |-> "none", code |-> 0, msg |-> "none",
   product |-> NoId, mail |-> NoMail, early |-> {}, wrote |-> {}]

\* No request is in flight.
Quiet == \A c \in Slots : race[c].pc = "idle"

WroteByOthers(c) == UNION {race[d].wrote : d \in Slots \ {c}}

\* res.status(code).json(...): the handler returns.
Answer(me, code, msg) == [me EXCEPT !.pc = "done", !.code = code, !.msg = msg]

\* A request arrives on an idle connection and passes the middleware.
Arrive(c, request) ==
  /\ race[c].pc = "idle"
  /\ race' = [race EXCEPT ![c] = request]
  /\ hist' = IF Quiet THEN [stock |-> stock, orders |-> orders] ELSE hist
  /\ UNCHANGED <<stock, orders, calc, site>>

\* A step that writes no collection.
Local(c, me) ==
  /\ race' = [race EXCEPT ![c] = me]
  /\ UNCHANGED <<stock, orders, hist, calc, site>>

\* The caller receives the response.
Acknowledge(c) ==
  /\ race[c].pc = "done"
  /\ race' = [race EXCEPT ![c] = IdleClient]
  /\ hist' = IF \A d \in Slots \ {c} : race[d].pc = "idle" THEN NoHistory ELSE hist
  /\ UNCHANGED <<stock, orders, calc, site>>

\* After item i of a stock loop: the next item, or the step after the loop.
NextItem(me, items, loop, after) ==
  IF me.i = Len(items) THEN [me EXCEPT !.pc = after]
  ELSE [me EXCEPT !.pc = loop, !.i = @ + 1]

(***************************************************************************)
(* POST /orders, step by step.                                             *)
(***************************************************************************)
\* verifyToken and the field validation.
CreateArrive(c, u, items, pm) ==
  /\ Len(orders) < MaxOrders
  /\ Arrive(c, [IdleClient EXCEPT !.pc = "validate", !.op = "create",
                                  !.user = u, !.items = items, !.pm = pm, !.i = 1])

\* One iteration of the validation loop: Product.findById and the checks.
RaceValidate(c) ==
  /\ race[c].pc = "validate"
  /\ LET me == race[c]
         item == me.items[me.i]
         v == CheckItem(item, stock)
     IN  Local(c, IF v = "cast_error"
                  THEN Answer(me, 500, "error")
                  ELSE IF v # "ok"
                  THEN Answer(me, 400, v)
                  ELSE [me EXCEPT
                          !.pc = IF me.i = Len(me.items) THEN "save" ELSE "validate",
                          !.i = IF me.i = Len(me.items) THEN 1 ELSE me.i + 1,
                          !.early = IF ReqProductId(item) \in WroteByOthers(c)
                                    THEN @
                                    ELSE @ \cup {ReqProductId(item)}])

\* The tracking code is generated and the order is saved.
RaceSave(c, trk) ==
  /\ race[c].pc = "save"
  /\ LET me == race[c]
         doc == NewOrder(me.user, me.items, me.pm, trk)
     IN  IF OrderValid(doc, orders)
         THEN /\ orders' = Append(orders, OrderPersisted(doc))
              /\ race' = [race EXCEPT ![c] = [me EXCEPT !.pc = "find", !.trk = trk,
                                                        !.oid = Len(orders) + 1]]
         ELSE /\ race' = [race EXCEPT ![c] =
                            [Answer(me, 500, SaveError(doc)) EXCEPT !.trk = trk]]
              /\ UNCHANGED orders
  /\ UNCHANGED <<stock, hist, calc, site>>

\* The decrement loop reads the product of item i; a product that is gone
\* makes the handler throw.
RaceFind(c) ==
  /\ race[c].pc = "find"
  /\ LET me == race[c]
         pid == ReqProductId(me.items[me.i])
     IN  Local(c, IF ProductExists(stock, pid)
                  THEN [me EXCEPT !.pc = "write", !.read = stock[pid]]
                  ELSE Answer(me, 500, "error"))

\* The decrement loop saves the product it read with the stock decremented;
\* after the last item the handler goes on to its mails.  The save of a
\* product deleted since it was read finds no document and throws.
RaceWrite(c) ==
  /\ race[c].pc = "write"
  /\ LET me == race[c]
         item == me.items[me.i]
         pid == ReqProductId(item)
     IN  IF ProductExists(stock, pid)
         THEN /\ stock' = ProductSave(stock, pid, me.read - item.quantity)
              /\ race' = [race EXCEPT ![c] =
                            [NextItem(me, me.items, "find", "notify")
                               EXCEPT !.wrote = @ \cup {pid}]]
         ELSE /\ race' = [race EXCEPT ![c] = Answer(me, 500, "error")]
              /\ UNCHANGED stock
  /\ UNCHANGED <<orders, hist, calc, site>>

\* User.findById(req.user.id): the document is used for the mails only.
CreateNotify(c) ==
  /\ race[c].pc = "notify"
  /\ race[c].op = "create"
  /\ Local(c, [race[c] EXCEPT !.pc = "mailCustomer"])

\* await sendEmail to the customer, whose outcome is m.  configured tells
\* whether ADMIN_EMAIL is set: when it is not, the mail to the
\* administrator is skipped and the handler answers.
CreateMailCustomer(c, m, configured) ==
  /\ race[c].pc = "mailCustomer"
  /\ LET me == [race[c] EXCEPT !.mail = [customer |-> m,
                                         admin |-> IF configured THEN "none"
                                                   ELSE "skipped"]]
     IN  Local(c, IF TrySendEmail(m) = "uncaught" THEN Answer(me, 500, "error")
                  ELSE IF configured THEN [me EXCEPT !.pc = "mailAdmin"]
                  ELSE Answer(me, 201, "ok"))

\* await sendEmail to the administrator, whose outcome is m, and the
\* response.
CreateMailAdmin(c, m) ==
  /\ race[c].pc = "mailAdmin"
  /\ LET me == [race[c] EXCEPT !.mail.admin = m]
     IN  Local(c, IF TrySendEmail(m) = "uncaught" THEN Answer(me, 500, "error")
                  ELSE Answer(me, 201, "ok"))

(***************************************************************************)
(* The restore loop of the two cancelling handlers and the re-deduction    *)
(* loop of the status handler, step by step.  The items are those of the   *)
(* order the handler read; no request changes the items of an order.       *)
(***************************************************************************)
\* The restore loop reads the product of item i: a product that is not
\* found is skipped.
RestoreRead(c) ==
  /\ race[c].pc = "restore"
  /\ LET me == race[c]
         items == orders[me.oid].items
         pid == DocProductId(items[me.i])
     IN  Local(c, IF ProductExists(stock, pid)
                  THEN [me EXCEPT !.pc = "restoreSave", !.read = stock[pid]]
                  ELSE NextItem(me, items, "restore", "saveOrder"))

\* The restore loop saves the product it read with the quantity added.
\* The save of a product deleted since it was read throws: the status
\* handler answers 500, the cancel handler 400.
RestoreWrite(c) ==
  /\ race[c].pc = "restoreSave"
  /\ LET me == race[c]
         items == orders[me.oid].items
         pid == DocProductId(items[me.i])
     IN  IF ProductExists(stock, pid)
         THEN /\ stock' = ProductSave(stock, pid, me.read + items[me.i].quantity)
              /\ race' = [race EXCEPT ![c] = NextItem(me, items, "restore", "saveOrder")]
         ELSE /\ race' = [race EXCEPT ![c] =
                            Answer(me, IF me.op = "cancel" THEN 400 ELSE 500, "error")]
              /\ UNCHANGED stock
  /\ UNCHANGED <<orders, hist, calc, site>>

\* The re-deduction loop reads the product of item i: a product that is
\* not found is skipped, a product that lacks stock ends the request.
DeductRead(c) ==
  /\ race[c].pc = "deduct"
  /\ LET me == race[c]
         items == orders[me.oid].items
         pid == DocProductId(items[me.i])
     IN  Local(c, IF ~ProductExists(stock, pid)
                  THEN NextItem(me, items, "deduct", "saveOrder")
                  ELSE IF stock[pid] < items[me.i].quantity
                  THEN [Answer(me, 400, "insufficient") EXCEPT !.product = pid]
                  ELSE [me EXCEPT !.pc = "deductSave", !.read = stock[pid]])

\* The re-deduction loop saves the product it read with the quantity taken.
DeductWrite(c) ==
  /\ race[c].pc = "deductSave"
  /\ LET me == race[c]
         items == orders[me.oid].items
         pid == DocProductId(items[me.i])
     IN  IF ProductExists(stock, pid)
         THEN /\ stock' = ProductSave(stock, pid, me.read - items[me.i].quantity)
              /\ race' = [race EXCEPT ![c] = NextItem(me, items, "deduct", "saveOrder")]
         ELSE /\ race' = [race EXCEPT ![c] = Answer(me, 500, "error")]
              /\ UNCHANGED stock
  /\ UNCHANGED <<orders, hist, calc, site>>

\* order.save() of a document read earlier: the paths assigned since are
\* validated and written onto the stored document, the others are left as
\* the store has them.  A path assigned the value it had is not modified.
StatusWritten(ords, oid, prev, status) ==
  IF status = prev THEN ords ELSE [ords EXCEPT ![oid].status = status]

(***************************************************************************)
(* PUT /orders/:id/status, step by step.                                   *)
(***************************************************************************)
\* verifyToken and the check of the caller's role.
StatusArrive(c, u, oid, status) ==
  LET me == [IdleClient EXCEPT !.op = "status", !.user = u, !.oid = oid,
                               !.arg = status]
  IN  Arrive(c, IF Role(u) # "admin" THEN Answer(me, 403, "denied")
                ELSE [me EXCEPT !.pc = "order"])

\* Order.findById, and the choice of the stock loop by the status read.
StatusFind(c) ==
  /\ race[c].pc = "order"
  /\ race[c].op = "status"
  /\ LET me == race[c]
         previousStatus == orders[me.oid].status
         release == me.arg = "cancelled" /\ previousStatus # "cancelled"
         reapply == previousStatus = "cancelled" /\ me.arg # "cancelled"
     IN  Local(c, IF me.oid > Len(orders) THEN Answer(me, 404, "no_order")
                  ELSE [me EXCEPT
                          !.prev = previousStatus,
                          !.i = 1,
                          !.effect = IF release THEN "release"
                                     ELSE IF reapply THEN "reapply" ELSE "none",
                          !.pc = IF release THEN "restore"
                                 ELSE IF reapply THEN "deduct" ELSE "saveOrder"])

\* order.status = status; await order.save().
StatusSave(c) ==
  /\ race[c].pc = "saveOrder"
  /\ race[c].op = "status"
  /\ LET me == race[c]
         doc == [orders[me.oid] EXCEPT !.status = me.arg]
     IN  IF OrderValid(doc, OtherOrders(orders, me.oid))
         THEN /\ orders' = StatusWritten(orders, me.oid, me.prev, me.arg)
              /\ race' = [race EXCEPT ![c] = [me EXCEPT !.pc = "notify"]]
         ELSE /\ race' = [race EXCEPT ![c] = Answer(me, 500, "error")]
              /\ UNCHANGED orders
  /\ UNCHANGED <<stock, hist, calc, site>>

\* The mail to the customer, whose outcome is m, and the response.
StatusNotify(c, m) ==
  /\ race[c].pc = "notify"
  /\ race[c].op = "status"
  /\ LET me == [race[c] EXCEPT !.mail = [customer |-> m, admin |-> "none"]]
     IN  Local(c, IF TrySendEmail(m) = "uncaught"
                  THEN Answer(me, 500, "error")
                  ELSE Answer(me, 200, "ok"))

(***************************************************************************)
(* POST /orders/:id/cancel, step by step.                                  *)
(***************************************************************************)
\* verifyToken.
CancelArrive(c, u, oid, reason) ==
  Arrive(c, [IdleClient EXCEPT !.pc = "order", !.op = "cancel", !.user = u,
                               !.oid = oid, !.arg = reason])

\* Order.findById and the checks on the document read.
CancelFind(c) ==
  /\ race[c].pc = "order"
  /\ race[c].op = "cancel"
  /\ LET me == race[c]
     IN  Local(c, IF me.oid > Len(orders) THEN Answer(me, 404, "no_order")
                  ELSE IF orders[me.oid].user # me.user THEN Answer(me, 403, "denied")
                  ELSE IF orders[me.oid].status # "pending"
                  THEN Answer(me, 400, "not_pending")
                  ELSE [me EXCEPT !.pc = "restore", !.i = 1, !.effect = "release",
                                  !.prev = orders[me.oid].status])

\* order.status = 'cancelled'; order.cancellationReason = reason; await
\* order.save(); the response.  The schema has no path for the reason.
CancelSave(c) ==
  /\ race[c].pc = "saveOrder"
  /\ race[c].op = "cancel"
  /\ orders' = StatusWritten(orders, race[c].oid, race[c].prev, "cancelled")
  /\ race' = [race EXCEPT ![c] = Answer(race[c], 200, "ok")]
  /\ UNCHANGED <<stock, hist, calc, site>>

(***************************************************************************)
(* POST /orders/:id/refund, step by step.                                  *)
(***************************************************************************)
RefundArrive(c, u, oid, bankDetails) ==
  Arrive(c, [IdleClient EXCEPT !.pc = "order", !.op = "refund", !.user = u,
                               !.oid = oid, !.arg = bankDetails])

RefundFind(c) ==
  /\ race[c].pc = "order"
  /\ race[c].op = "refund"
  /\ LET me == race[c]
     IN  Local(c, IF me.oid > Len(orders) THEN Answer(me, 404, "no_order")
                  ELSE IF orders[me.oid].user # me.user THEN Answer(me, 403, "denied")
                  ELSE IF orders[me.oid].status # "cancelled"
                  THEN Answer(me, 400, "not_cancelled")
                  ELSE [me EXCEPT !.pc = "saveOrder", !.prev = orders[me.oid].status])

\* order.refundDetails = bankDetails; await order.save(); the response.
\* The schema has no path for the details: the save writes nothing.
RefundSave(c) ==
  /\ race[c].pc = "saveOrder"
  /\ race[c].op = "refund"
  /\ Local(c, Answer(race[c], 200, "ok"))

(***************************************************************************)
(* POST /orders/:orderId/verify-payment, step by step.                     *)
(***************************************************************************)
VerifyArrive(c, oid) ==
  Arrive(c, [IdleClient EXCEPT !.pc = "order", !.op = "verify", !.oid = oid])

VerifyFind(c) ==
  /\ race[c].pc = "order"
  /\ race[c].op = "verify"
  /\ LET me == race[c]
     IN  Local(c, IF me.oid > Len(orders) THEN Answer(me, 404, "no_order")
                  ELSE [me EXCEPT !.pc = "saveOrder", !.prev = orders[me.oid].status])

\* order.status = 'processing'; await order.save(); the response.
VerifySave(c) ==
  /\ race[c].pc = "saveOrder"
  /\ race[c].op = "verify"
  /\ orders' = StatusWritten(orders, race[c].oid, race[c].prev, "processing")
  /\ race' = [race EXCEPT ![c] = Answer(race[c], 200, "ok")]
  /\ UNCHANGED <<stock, hist, calc, site>>

(***************************************************************************)
(* The product routes, step by step.                                       *)
(***************************************************************************)
\* isAdmin.
DeleteArrive(c, u, pid) ==
  LET me == [IdleClient EXCEPT !.op = "delete", !.user = u, !.pid = pid]
  IN  Arrive(c, IF Role(u) # "admin" THEN Answer(me, 403, "denied")
                ELSE [me EXCEPT !.pc = "product"])

\* Product.findById, and the removal of the image files.
DeleteFind(c, unlinked) ==
  /\ race[c].pc = "product"
  /\ race[c].op = "delete"
  /\ LET me == [race[c] EXCEPT !.arg = IF unlinked THEN "unlinked" ELSE "threw"]
     IN  Local(c, IF ~ProductExists(stock, me.pid) THEN Answer(me, 404, "not_found")
                  ELSE IF ~unlinked THEN Answer(me, 500, "error")
                  ELSE [me EXCEPT !.pc = "remove"])

\* Product.findByIdAndDelete and the response.
DeleteRemove(c) ==
  /\ race[c].pc = "remove"
  /\ stock' = [p \in (DOMAIN stock) \ {race[c].pid} |-> stock[p]]
  /\ race' = [race EXCEPT ![c] = Answer(race[c], 200, "ok")]
  /\ UNCHANGED <<orders, hist, calc, site>>

EditArrive(c, u, pid, field) ==
  LET me == [IdleClient EXCEPT !.op = "edit", !.user = u, !.pid = pid, !.arg = field]
  IN  Arrive(c, IF Role(u) # "admin" THEN Answer(me, 403, "denied")
                ELSE [me EXCEPT !.pc = "product"])

\* Product.findById.
EditFind(c) ==
  /\ race[c].pc = "product"
  /\ race[c].op = "edit"
  /\ Local(c, IF ~ProductExists(stock, race[c].pid)
              THEN Answer(race[c], 404, "not_found")
              ELSE [race[c] EXCEPT !.pc = "productSave", !.read = stock[race[c].pid]])

\* if (stock) product.stock = parseInt(stock) || 0; await product.save().
\* The save of a product deleted since it was read finds no document and
\* throws.
EditSave(c) ==
  /\ race[c].pc = "productSave"
  /\ race[c].op = "edit"
  /\ LET me == race[c]
     IN  IF ProductExists(stock, me.pid)
         THEN /\ stock' = IF FieldGiven(me.arg)
                          THEN ProductWritten(stock, me.pid, me.read, ParseStock(me.arg))
                          ELSE stock
              /\ race' = [race EXCEPT ![c] = Answer(me, 200, "ok")]
         ELSE /\ race' = [race EXCEPT ![c] = Answer(me, 500, "error")]
              /\ UNCHANGED stock
  /\ UNCHANGED <<orders, hist, calc, site>>

\* PUT /products/:id of the product router: adminAuth.
PutArrive(c, u, pid, field) ==
  LET me == [IdleClient EXCEPT !.op = "put", !.user = u, !.pid = pid, !.arg = field]
  IN  Arrive(c, IF Role(u) # "admin" THEN Answer(me, 403, "denied")
                ELSE [me EXCEPT !.pc = "product"])

\* Product.findById.
PutFind(c) ==
  /\ race[c].pc = "product"
  /\ race[c].op = "put"
  /\ Local(c, IF ~ProductExists(stock, race[c].pid)
              THEN Answer(race[c], 404, "not_found")
              ELSE [race[c] EXCEPT !.pc = "productSave", !.read = stock[race[c].pid]])

\* if (stock) product.stock = parseInt(stock); await product.save(): NaN
\* fails the cast and the save is rejected; the catch answers 400.
PutSave(c) ==
  /\ race[c].pc = "productSave"
  /\ race[c].op = "put"
  /\ LET me == race[c]
     IN  IF ProductExists(stock, me.pid) /\ (FieldGiven(me.arg) => IsNumber(me.arg))
         THEN /\ stock' = IF FieldGiven(me.arg)
                          THEN ProductWritten(stock, me.pid, me.read, ParseStock(me.arg))
                          ELSE stock
              /\ race' = [race EXCEPT ![c] = Answer(me, 200, "ok")]
         ELSE /\ race' = [race EXCEPT ![c] = Answer(me, 400, "error")]
              /\ UNCHANGED stock
  /\ UNCHANGED <<orders, hist, calc, site>>

\* The products that an order or a request in flight refers to.
Referred ==
  UNION {{orders[j].items[i].product : i \in 1..Len(orders[j].items)} :
         j \in 1..Len(orders)}
InFlight ==
  UNION {{ReqProductId(race[c].items[i]) : i \in 1..Len(race[c].items)}
           \cup {race[c].pid} : c \in Slots}

\* The ids the store can give a new product now.
FreshProductIds ==
  {p \in NewProductIds : p \notin (DOMAIN stock) \cup Referred \cup InFlight}

\* isAdmin and the check of the required fields.
AddArrive(c, u, field, complete) ==
  LET me == [IdleClient EXCEPT !.op = "add", !.user = u, !.arg = field]
  IN  Arrive(c, IF Role(u) # "admin" THEN Answer(me, 403, "denied")
                ELSE IF ~complete THEN Answer(me, 400, "missing_fields")
                ELSE [me EXCEPT !.pc = "productNew"])

\* new Product({... stock: parseInt(stock) || 0 ...}); await product.save().
AddSave(c, pid) ==
  /\ race[c].pc = "productNew"
  /\ race[c].op = "add"
  /\ stock' = [p \in (DOMAIN stock) \cup {pid} |->
                 IF p = pid THEN ParseStock(race[c].arg) ELSE stock[p]]
  /\ race' = [race EXCEPT ![c] = [Answer(race[c], 201, "ok") EXCEPT !.pid = pid]]
  /\ UNCHANGED <<orders, hist, calc, site>>

\* POST /products of the product router: adminAuth and the check of the
\* required fields, the stock among them.
PostArrive(c, u, field, complete) ==
  LET me == [IdleClient EXCEPT !.op = "post", !.user = u, !.arg = field]
  IN  Arrive(c, IF Role(u) # "admin" THEN Answer(me, 403, "denied")
                ELSE IF ~complete \/ ~FieldGiven(field)
                THEN Answer(me, 400, "missing_fields")
                ELSE [me EXCEPT !.pc = "productNew"])

\* new Product({... stock: parseInt(stock) ...}); await product.save(): NaN
\* fails the cast and the save is rejected; the catch answers 400.
PostSave(c, pid) ==
  /\ race[c].pc = "productNew"
  /\ race[c].op = "post"
  /\ IF IsNumber(race[c].arg)
     THEN /\ stock' = [p \in (DOMAIN stock) \cup {pid} |->
                         IF p = pid THEN ParseStock(race[c].arg) ELSE stock[p]]
          /\ race' = [race EXCEPT ![c] = [Answer(race[c], 201, "ok") EXCEPT !.pid = pid]]
     ELSE /\ race' = [race EXCEPT ![c] = Answer(race[c], 400, "error")]
          /\ UNCHANGED stock
  /\ UNCHANGED <<orders, hist, calc, site>>

(***************************************************************************)
(* The requests explored.                                                  *)
(***************************************************************************)
\* The tracking codes a create request can draw: one in use (a collision) or
\* a fresh one; which fresh one is immaterial.
UsedCodes == {orders[j].trackingNumber : j \in 1..Len(orders)}
DrawnCodes ==
  UsedCodes \cup (IF TrackingCodes \subseteq UsedCodes THEN {}
                 ELSE {CHOOSE c \in TrackingCodes : c \notin UsedCodes})

\* Payment method and tracking code of the create requests explored: a
\* method outside the enum is explored with one code only, since its save
\* fails whatever the code.
CreateExtras ==
  {<<"cod", c>> : c \in DrawnCodes} \cup
  {<<pm, CHOOSE c \in DrawnCodes : TRUE>> : pm \in PaymentInputs \ {"cod"}}

\* The create requests that can arrive while no request is in flight, with
\* the tracking code each will draw.
CreateRequests ==
  IF Len(orders) < MaxOrders /\ Quiet
  THEN Customers \X ReqItemLists \X CreateExtras
  ELSE {}

FlowCreateBodies ==
  IF Len(orders) < MaxOrders /\ Quiet
  THEN Customers \X FlowItemLists \X CreateExtras
  ELSE {}

\* The same with the outcomes of the mails.  A request that does not reach
\* the mails is explored with one mail outcome.
FlowCreateRequests ==
  UNION {{<<q[1], q[2], q[3], m>> :
            m \in IF PostOrders(stock, orders, q[1], q[2], q[3][1], q[3][2]).resp.code = 201
                  THEN MailPairs ELSE {AllSent}} :
         q \in FlowCreateBodies}

(***************************************************************************)
(* Accounts and password reset: forgot-password stores a one-time code,    *)
(* verify-otp trades it for a reset token, reset-password trades the token *)
(* for a new password; register, change-password and the profile update    *)
(* write the same documents.                                               *)
(***************************************************************************)
AccountIds == {"u1", "u2"}           \* _id of the user documents, in the order
FirstAccounts == {"u1"}              \* the store returns them; u1 exists at start
Emails == {"u1@shop"}
UnknownEmails == {"nobody@shop"}
EmailStrings == Emails \cup UnknownEmails

\* A body field can hold any JSON value.  A field that holds the object
\* { "$ne": null } reaches the query as an operator: it matches every
\* document that has a value in the path.
NeNull == "$ne:null"
EmailInputs == EmailStrings \cup {NeNull}

\* Math.floor(10000 + Math.random() * 90000).toString(): two of the values
\* it can give, and a code it never gives.
Otps == {"10000", "99999"}
OtpInputs == Otps \cup {"00000", NeNull}
NoOtp == "undefined"
NoDate == -1
NoToken == 0

OTP_LIFETIME == 300000
TOKEN_LIFETIME == 3600000

\* The clock moves in steps of the shorter lifetime, one step or just short
\* of the longer lifetime at a time, up to MaxTicks steps.
TICK == OTP_LIFETIME
MaxTicks == 13
Advances == {1, (TOKEN_LIFETIME \div TICK) - 1}

\* crypto.randomBytes(32).toString('hex'): the n-th token minted is n; no
\* two draws of 32 random bytes are taken to coincide.
MaxTokens == 2
TokenInputs == 0..MaxTokens

\* The schema's validator of password and validatePassword of the register
\* route: at least 8 characters with a lower case letter, an upper case
\* letter and a digit.  change-password asks for 6 characters.
StrongPasswords == {"Passw0rdA", "Passw0rdB"}
WeakPasswords == {"weak", "weak12"}
PasswordInputs == StrongPasswords \cup WeakPasswords
PasswordValid(password) == password \in StrongPasswords
PasswordLength(password) ==
  IF password = "weak" THEN 4 ELSE IF password = "weak12" THEN 6 ELSE 9

\* The pre-save hook: bcrypt.hash of a modified password; bcrypt.compare.
Hash(password) == <<"bcrypt", password>>
Compare(password, hash) == hash = Hash(password)

NewAccount(email, password) ==
  [email |-> email, password |-> Hash(password), otp |-> NoOtp, otpExpires |-> NoDate,
   resetPasswordToken |-> NoToken, resetPasswordExpires |-> NoDate]

\* A query condition on a string path: a string matches the documents that
\* hold it, the operator those that hold any value.
Matches(stored, q) == IF q = NeNull THEN stored # NoOtp ELSE stored = q

\* findOne returns the first of the documents that match.
First(ids) == IF "u1" \in ids THEN "u1" ELSE "u2"

\* User.findOne({ email })
EmailHolders(acc, email) == {id \in DOMAIN acc : Matches(acc[id].email, email)}

\* POST /forgot-password.  otp is the code drawn, sent the outcome of the
\* call to the mail provider.
ForgotPassword(acc, t, email, otp, sent) ==
  IF EmailHolders(acc, email) = {}
  THEN [accounts |-> acc, code |-> 404, id |-> "none"]
  ELSE LET id == First(EmailHolders(acc, email))
           saved == [acc EXCEPT ![id].otp = otp,
                                ![id].otpExpires = t + OTP_LIFETIME]
       IN  IF sent
           THEN [accounts |-> saved, code |-> 200, id |-> id]
           ELSE [accounts |-> [saved EXCEPT ![id].otp = NoOtp,
                                            ![id].otpExpires = NoDate],
                 code |-> 500, id |-> id]

\* User.findOne({ email, otp, otpExpires: { $gt: Date.now() } }).
OtpHolders(acc, t, email, otp) ==
  {id \in EmailHolders(acc, email) :
     /\ Matches(acc[id].otp, otp)
     /\ acc[id].otpExpires # NoDate
     /\ acc[id].otpExpires > t}

\* POST /verify-otp.  token is the reset token drawn.
VerifyOtp(acc, t, email, otp, token) ==
  IF OtpHolders(acc, t, email, otp) = {}
  THEN [accounts |-> acc, code |-> 400, resetToken |-> NoToken, id |-> "none"]
  ELSE LET id == First(OtpHolders(acc, t, email, otp))
       IN  [accounts |->
              [acc EXCEPT ![id].resetPasswordToken = token,
                          ![id].resetPasswordExpires = t + TOKEN_LIFETIME,
                          ![id].otp = NoOtp,
                          ![id].otpExpires = NoDate],
            code |-> 200, resetToken |-> token, id |-> id]

\* User.findOne({ resetPasswordToken: token,
\*                resetPasswordExpires: { $gt: Date.now() } }).
TokenHolders(acc, t, token) ==
  {id \in DOMAIN acc : /\ acc[id].resetPasswordToken = token
                       /\ acc[id].resetPasswordExpires # NoDate
                       /\ acc[id].resetPasswordExpires > t}

\* POST /reset-password/:token.  A password the schema rejects makes the
\* save throw; the failure of the confirmation mail is swallowed.
ResetPassword(acc, t, token, password) ==
  IF TokenHolders(acc, t, token) = {}
  THEN [accounts |-> acc, code |-> 400, id |-> "none"]
  ELSE LET id == First(TokenHolders(acc, t, token))
       IN  IF ~PasswordValid(password)
           THEN [accounts |-> acc, code |-> 500, id |-> id]
           ELSE [accounts |->
                   [acc EXCEPT ![id].password = Hash(password),
                               ![id].resetPasswordToken = NoToken,
                               ![id].resetPasswordExpires = NoDate],
                 code |-> 200, id |-> id]

\* PUT /change-password of the caller whose document is id.
ChangePassword(acc, id, currentPassword, newPassword) ==
  IF PasswordLength(newPassword) < 6 THEN [accounts |-> acc, code |-> 400]
  ELSE IF ~Compare(currentPassword, acc[id].password)
  THEN [accounts |-> acc, code |-> 400]
  ELSE IF ~PasswordValid(newPassword) THEN [accounts |-> acc, code |-> 500]
  ELSE [accounts |-> [acc EXCEPT ![id].password = Hash(newPassword)], code |-> 200]

\* POST /register.  id is the _id the store gives the document.
Register(acc, id, email, password) ==
  IF ~PasswordValid(password) THEN [accounts |-> acc, code |-> 400]
  ELSE IF EmailHolders(acc, email) # {} THEN [accounts |-> acc, code |-> 400]
  ELSE [accounts |-> [a \in (DOMAIN acc) \cup {id} |->
                        IF a = id THEN NewAccount(email, password) ELSE acc[a]],
        code |-> 201]

\* PUT /update of the caller whose document is id, reduced to the email.
UpdateProfile(acc, id, email) ==
  IF email # acc[id].email /\ EmailHolders(acc, email) # {}
  THEN [accounts |-> acc, code |-> 400]
  ELSE [accounts |-> [acc EXCEPT ![id].email = email], code |-> 200]

(***************************************************************************)
(* The account routes step by step: a step is the answer of the store to   *)
(* one operation and the stretch of the handler up to its next await.      *)
(***************************************************************************)
Callers == {"k1", "k2"}              \* connections

MaxCodes == 3                        \* codes that forgot-password draws in a run
MaxEdits == 2                        \* register, update and change-password requests in a run

\* History of the code stored last for a user: the code, when it was stored
\* and the how-manieth code drawn it is.
NoOtpLog == [otp |-> NoOtp, at |-> NoDate, seq |-> 0]

\* The locals of a handler.  read is the document the handler holds, as
\* the store returned it.  seen is what that document held of the
\* credential asked for, with the number of the code that its otp is;
\* blocked is history: whether, when the document was read, the last
\* forgot-password answered for that user had failed.
NoDocument == <<>>
IdleReset ==
  [pc |-> "idle", op |-> "none", id |-> "none", email |-> "none", otp |-> NoOtp,
   expires |-> NoDate, token |-> NoToken, password |-> "none",
   current |-> "none", seq |-> 0, seen |-> <<>>, blocked |-> FALSE, code |-> 0,
   read |-> NoDocument]

Calm == \A k \in Callers : resetreq[k].pc = "idle"

PwdFrame == <<shop, roles, rolereq, book, bookreq, gallery, slidereq>>

Replied(me, code) == [me EXCEPT !.pc = "done", !.code = code]

\* A step that writes no document.
Handled(k, me) ==
  /\ resetreq' = [resetreq EXCEPT ![k] = me]
  /\ UNCHANGED <<accounts, now, pwd, PwdFrame>>

\* History: the accounts as they were when a request arrived while no
\* other was in flight.
NoAccounts == <<>>
Noted == IF Calm THEN accounts ELSE pwd.before

\* The first step of a request to register or to change a profile or a
\* password: the requests of these routes in a run are counted.
Counted(k, me) ==
  /\ resetreq' = [resetreq EXCEPT ![k] = me]
  /\ pwd' = [pwd EXCEPT !.edits = @ + 1, !.before = Noted]
  /\ UNCHANGED <<accounts, now, PwdFrame>>

\* The caller receives the response.
Receive(k) ==
  /\ resetreq[k].pc = "done"
  /\ resetreq' = [resetreq EXCEPT ![k] = IdleReset]
  /\ pwd' = [pwd EXCEPT !.before =
                IF \A j \in Callers \ {k} : resetreq[j].pc = "idle" THEN NoAccounts ELSE @]
  /\ UNCHANGED <<accounts, now, PwdFrame>>

\* The paths that user.save() writes: those assigned a value other than
\* the one the document held.  A password is assigned in the clear over
\* the hash read, which always modifies the path.
Modified(read, fields) ==
  {f \in DOMAIN fields : f = "password" \/ fields[f] # read[f]}

\* user.save() of a document read earlier: the paths modified since are
\* written onto the stored document, the others are left as the store has
\* them.
Saved(id, read, fields) ==
  [accounts EXCEPT ![id] = [f \in DOMAIN @ |->
                              IF f \in Modified(read, fields) THEN fields[f] ELSE @[f]]]

\* POST /forgot-password: User.findOne({ email }); the code and its expiry
\* are computed.
ForgotFind(k, email, otp) ==
  /\ resetreq[k].pc = "idle"
  /\ LET me == [IdleReset EXCEPT !.op = "forgot", !.email = email]
         found == EmailHolders(accounts, email)
     IN  /\ found # {} => pwd.drawn < MaxCodes
         /\ resetreq' = [resetreq EXCEPT ![k] =
               IF found = {} THEN Replied(me, 404)
               ELSE [me EXCEPT !.pc = "store", !.id = First(found), !.otp = otp,
                               !.seq = pwd.drawn + 1,
                               !.expires = now + OTP_LIFETIME,
                               !.read = accounts[First(found)]]]
         /\ pwd' = [pwd EXCEPT !.drawn = IF found = {} THEN @ ELSE @ + 1,
                                !.before = Noted]
  /\ UNCHANGED <<accounts, now, PwdFrame>>

\* user.otp = otp; user.otpExpires = otpExpiry; await user.save().  The
\* history takes the code when the store holds it after the save.
ForgotStore(k) ==
  /\ resetreq[k].pc = "store"
  /\ resetreq[k].op = "forgot"
  /\ LET me == resetreq[k]
         written == Saved(me.id, me.read, [otp |-> me.otp, otpExpires |-> me.expires])
     IN  /\ accounts' = written
         /\ pwd' = [pwd EXCEPT !.otpLog[me.id] =
                                  IF written[me.id].otp = me.otp
                                  THEN [otp |-> me.otp, at |-> me.expires - OTP_LIFETIME,
                                        seq |-> me.seq]
                                  ELSE @]
         /\ resetreq' = [resetreq EXCEPT ![k] = [me EXCEPT !.pc = "send"]]
  /\ UNCHANGED <<now, PwdFrame>>

\* await axios.post(...): the mail went out and the request is answered, or
\* the call threw.
ForgotSend(k, sent) ==
  /\ resetreq[k].pc = "send"
  /\ LET me == resetreq[k]
     IN  /\ resetreq' = [resetreq EXCEPT ![k] =
                           IF sent THEN Replied(me, 200) ELSE [me EXCEPT !.pc = "clear"]]
         /\ pwd' = [pwd EXCEPT !.blocked[me.id] = IF sent THEN FALSE ELSE @]
  /\ UNCHANGED <<accounts, now, PwdFrame>>

\* user.otp = undefined; user.otpExpires = undefined; await user.save();
\* the response.  The document holds the code and the expiry assigned
\* before the first save, so both paths are modified.
ForgotClear(k) ==
  /\ resetreq[k].pc = "clear"
  /\ LET me == resetreq[k]
         held == [me.read EXCEPT !.otp = me.otp, !.otpExpires = me.expires]
     IN  /\ accounts' = Saved(me.id, held, [otp |-> NoOtp, otpExpires |-> NoDate])
         /\ pwd' = [pwd EXCEPT !.blocked[me.id] = TRUE]
         /\ resetreq' = [resetreq EXCEPT ![k] = Replied(me, 500)]
  /\ UNCHANGED <<now, PwdFrame>>

\* POST /verify-otp: User.findOne({ email, otp, otpExpires }); the token
\* and its expiry are computed.
VerifyOtpFind(k, email, otp) ==
  /\ resetreq[k].pc = "idle"
  /\ LET me == [IdleReset EXCEPT !.op = "verify", !.email = email, !.otp = otp]
         found == OtpHolders(accounts, now, email, otp)
         id == First(found)
     IN  /\ found # {} => pwd.minted < MaxTokens
         /\ resetreq' = [resetreq EXCEPT ![k] =
               IF found = {} THEN Replied(me, 400)
               ELSE [me EXCEPT !.pc = "store", !.id = id,
                               !.read = accounts[id],
                               !.seen = <<accounts[id].otp, accounts[id].otpExpires,
                                          pwd.otpLog[id].seq>>,
                               !.blocked = pwd.blocked[id],
                               !.token = pwd.minted + 1,
                               !.expires = now + TOKEN_LIFETIME]]
         /\ pwd' = [pwd EXCEPT !.minted = IF found = {} THEN @ ELSE @ + 1,
                                !.before = Noted]
  /\ UNCHANGED <<accounts, now, PwdFrame>>

\* The token and its expiry are set, the code and its expiry are unset;
\* await user.save(); the response.
VerifyOtpStore(k) ==
  /\ resetreq[k].pc = "store"
  /\ resetreq[k].op = "verify"
  /\ LET me == resetreq[k]
     IN  /\ accounts' = Saved(me.id, me.read,
                               [resetPasswordToken |-> me.token,
                                resetPasswordExpires |-> me.expires,
                                otp |-> NoOtp, otpExpires |-> NoDate])
         /\ pwd' = [pwd EXCEPT !.tokenLog =
                      [n \in (DOMAIN @) \cup {me.token} |->
                         IF n = me.token
                         THEN [id |-> me.id, at |-> me.expires - TOKEN_LIFETIME]
                         ELSE @[n]]]
         /\ resetreq' = [resetreq EXCEPT ![k] = Replied(me, 200)]
  /\ UNCHANGED <<now, PwdFrame>>

\* POST /reset-password/:token: User.findOne({ resetPasswordToken,
\* resetPasswordExpires }).
ResetFind(k, token, password) ==
  /\ resetreq[k].pc = "idle"
  /\ LET me == [IdleReset EXCEPT !.op = "reset", !.token = token,
                                 !.password = password]
         found == TokenHolders(accounts, now, token)
         id == First(found)
     IN  /\ resetreq' = [resetreq EXCEPT ![k] =
               IF found = {} THEN Replied(me, 400)
               ELSE [me EXCEPT !.pc = "store", !.id = id,
                               !.read = accounts[id],
                               !.seen = <<accounts[id].resetPasswordToken,
                                          accounts[id].resetPasswordExpires>>]]
         /\ pwd' = [pwd EXCEPT !.before = Noted]
  /\ UNCHANGED <<accounts, now, PwdFrame>>

\* user.password = password; the token and its expiry are unset; await
\* user.save(): the schema validates the password, the hook hashes it.
ResetStore(k) ==
  /\ resetreq[k].pc = "store"
  /\ resetreq[k].op = "reset"
  /\ LET me == resetreq[k]
     IN  IF PasswordValid(me.password)
         THEN /\ accounts' = Saved(me.id, me.read,
                                    [password |-> Hash(me.password),
                                     resetPasswordToken |-> NoToken,
                                     resetPasswordExpires |-> NoDate])
              /\ resetreq' = [resetreq EXCEPT ![k] = [me EXCEPT !.pc = "confirm"]]
         ELSE /\ resetreq' = [resetreq EXCEPT ![k] = Replied(me, 500)]
              /\ UNCHANGED accounts
  /\ UNCHANGED <<now, pwd, PwdFrame>>

\* The confirmation mail, whose failure is swallowed, and the response.
ResetConfirm(k) ==
  /\ resetreq[k].pc = "confirm"
  /\ Handled(k, Replied(resetreq[k], 200))

\* PUT /change-password: auth and the check of the length.
ChangeArrive(k, id, currentPassword, newPassword) ==
  /\ resetreq[k].pc = "idle"
  /\ id \in DOMAIN accounts
  /\ LET me == [IdleReset EXCEPT !.op = "change", !.id = id, !.current = currentPassword,
                                 !.password = newPassword]
     IN  Counted(k, IF PasswordLength(newPassword) < 6 THEN Replied(me, 400)
                    ELSE [me EXCEPT !.pc = "find"])

\* User.findById.
ChangeFind(k) ==
  /\ resetreq[k].pc = "find"
  /\ Handled(k, [resetreq[k] EXCEPT !.pc = "compare",
                                    !.read = accounts[resetreq[k].id]])

\* await bcrypt.compare(currentPassword, user.password), with the password
\* of the document read.
ChangeCompare(k) ==
  /\ resetreq[k].pc = "compare"
  /\ LET me == resetreq[k]
     IN  Handled(k, IF ~Compare(me.current, me.read.password)
                    THEN Replied(me, 400)
                    ELSE [me EXCEPT !.pc = "store"])

\* user.password = newPassword; await user.save(); the response.
ChangeStore(k) ==
  /\ resetreq[k].pc = "store"
  /\ resetreq[k].op = "change"
  /\ LET me == resetreq[k]
     IN  IF PasswordValid(me.password)
         THEN /\ accounts' = Saved(me.id, me.read, [password |-> Hash(me.password)])
              /\ resetreq' = [resetreq EXCEPT ![k] = Replied(me, 200)]
         ELSE /\ resetreq' = [resetreq EXCEPT ![k] = Replied(me, 500)]
              /\ UNCHANGED accounts
  /\ UNCHANGED <<now, pwd, PwdFrame>>

\* POST /register: the validators, and User.findOne({ email }).
RegisterFind(k, email, password) ==
  /\ resetreq[k].pc = "idle"
  /\ LET me == [IdleReset EXCEPT !.op = "register", !.email = email,
                                 !.password = password]
     IN  Counted(k, IF ~PasswordValid(password) THEN Replied(me, 400)
                    ELSE IF EmailHolders(accounts, email) # {} THEN Replied(me, 400)
                    ELSE [me EXCEPT !.pc = "store"])

\* await user.save(): the unique index on email rejects a second document
\* with the email.
RegisterStore(k, id) ==
  /\ resetreq[k].pc = "store"
  /\ resetreq[k].op = "register"
  /\ id \notin DOMAIN accounts
  /\ LET me == resetreq[k]
     IN  IF EmailHolders(accounts, me.email) = {}
         THEN /\ accounts' = Register(accounts, id, me.email, me.password).accounts
              /\ resetreq' = [resetreq EXCEPT ![k] = [Replied(me, 201) EXCEPT !.id = id]]
         ELSE /\ resetreq' = [resetreq EXCEPT ![k] = Replied(me, 500)]
              /\ UNCHANGED accounts
  /\ UNCHANGED <<now, pwd, PwdFrame>>

\* PUT /update: auth reads the caller's document.
UpdateArrive(k, id, email) ==
  /\ resetreq[k].pc = "idle"
  /\ id \in DOMAIN accounts
  /\ Counted(k, [IdleReset EXCEPT !.op = "update", !.id = id, !.email = email,
                                  !.pc = IF email # accounts[id].email
                                         THEN "check" ELSE "store"])

\* User.findOne({ email }).
UpdateCheck(k) ==
  /\ resetreq[k].pc = "check"
  /\ Handled(k, IF EmailHolders(accounts, resetreq[k].email) # {}
                THEN Replied(resetreq[k], 400)
                ELSE [resetreq[k] EXCEPT !.pc = "store"])

\* User.findByIdAndUpdate(req.user.id, { name, email, phone }): the store
\* sets the email whatever the document holds; the unique index on email
\* rejects the email of another document.
UpdateStore(k) ==
  /\ resetreq[k].pc = "store"
  /\ resetreq[k].op = "update"
  /\ LET me == resetreq[k]
     IN  IF \E other \in (DOMAIN accounts) \ {me.id} : accounts[other].email = me.email
         THEN /\ resetreq' = [resetreq EXCEPT ![k] = Replied(me, 500)]
              /\ UNCHANGED accounts
         ELSE /\ accounts' = [accounts EXCEPT ![me.id].email = me.email]
              /\ resetreq' = [resetreq EXCEPT ![k] = Replied(me, 200)]
  /\ UNCHANGED <<now, pwd, PwdFrame>>

\* Time passes.
Tick(d) ==
  /\ now + d * TICK <= MaxTicks * TICK
  /\ now' = now + d * TICK
  /\ UNCHANGED <<accounts, pwd, resetreq, PwdFrame>>

(***************************************************************************)
(* PUT /users/:id/role.  The awaits of the middleware and of the handler   *)
(* are the points where the request of another caller can run.             *)
(***************************************************************************)
Members == {"a1", "a2", "u1"}
FirstAdmins == {"a1"}
TargetInputs == Members \cup {"x9"}
RoleEnum == {"user", "admin"}
RoleInputs == RoleEnum \cup {"owner"}

\* The authorization gate: the caller's role is resolved before the handler.
AdminAuth(rl, caller) == rl[caller] = "admin"

IdleRoleRequest ==
  [pc |-> "idle", target |-> "none", role |-> "none", read |-> "none", code |-> 0]
RoleFrame == <<shop, accounts, now, pwd, resetreq, book, bookreq, gallery, slidereq>>

\* The request arrives: adminAuth, then the check of the role in the body.
RoleArrive(caller, target, role) ==
  /\ rolereq[caller].pc \in {"idle", "done"}
  /\ rolereq' = [rolereq EXCEPT ![caller] =
                   IF ~AdminAuth(roles, caller)
                   THEN [IdleRoleRequest EXCEPT !.pc = "done", !.code = 403]
                   ELSE IF role \notin RoleEnum
                   THEN [IdleRoleRequest EXCEPT !.pc = "done", !.code = 400]
                   ELSE [IdleRoleRequest EXCEPT !.pc = "find", !.target = target,
                                                !.role = role]]
  /\ UNCHANGED <<roles, RoleFrame>>

\* User.findById(id), and the check that keeps a caller from demoting
\* themself.
RoleFind(caller) ==
  /\ rolereq[caller].pc = "find"
  /\ LET me == rolereq[caller]
     IN  rolereq' = [rolereq EXCEPT ![caller] =
                       IF me.target \notin DOMAIN roles
                       THEN [IdleRoleRequest EXCEPT !.pc = "done", !.code = 404]
                       ELSE IF me.target = caller /\ me.role = "user"
                       THEN [IdleRoleRequest EXCEPT !.pc = "done", !.code = 400]
                       ELSE [me EXCEPT !.pc = "save", !.read = roles[me.target]]]
  /\ UNCHANGED <<roles, RoleFrame>>

\* user.role = role; await user.save(): a role equal to the one read is
\* not modified, and the save leaves the role as the store has it.
RoleSave(caller) ==
  /\ rolereq[caller].pc = "save"
  /\ roles' = IF rolereq[caller].role = rolereq[caller].read THEN roles
              ELSE [roles EXCEPT ![rolereq[caller].target] = rolereq[caller].role]
  /\ rolereq' = [rolereq EXCEPT ![caller] =
                   [IdleRoleRequest EXCEPT !.pc = "done", !.code = 200]]
  /\ UNCHANGED RoleFrame

(***************************************************************************)
(* The address routes of one user.                                         *)
(***************************************************************************)
MaxAddresses == 5
MaxVersion == 6                      \* whole-list writes of the address book in a run
MaxRaceVersion == 2                  \* the same, when the requests interleave
Flags == {"true", "false", "undefined"}
AddressBodies == [isDefault : Flags, complete : BOOLEAN]

\* The handlers copy an address with { ...addr }.  Whether the copy of a
\* subdocument carries the fields of the address depends on the version of
\* the object mapper: kept is TRUE when it does; when it does not, the
\* required fields are missing and the save is rejected.
Truthy(flag) == flag = "true"
ClearDefaults(addrs) == [i \in DOMAIN addrs |-> [addrs[i] EXCEPT !.isDefault = FALSE]]
IndexOf(addrs, id) ==
  IF \E i \in DOMAIN addrs : addrs[i].id = id
  THEN CHOOSE i \in DOMAIN addrs : addrs[i].id = id
  ELSE 0
Remove(addrs, k) == [i \in 1..(Len(addrs) - 1) |-> IF i < k THEN addrs[i] ELSE addrs[i + 1]]

\* POST /addresses.
AddAddressKeepsDefaults(addrs, id, body, kept) ==
  IF ~body.complete
  THEN [addresses |-> addrs, code |-> 500]
  ELSE [addresses |-> Append(addrs, [id |-> id,
                                     isDefault |-> Len(addrs) = 0 \/ Truthy(body.isDefault)]),
        code |-> 200]

AddAddress(addrs, id, body, kept) ==
  LET first == Len(addrs) = 0 \/ Truthy(body.isDefault)
      mapped == IF first THEN ClearDefaults(addrs) ELSE addrs
      valid == body.complete /\ (first /\ Len(addrs) > 0 => kept)
  IN  IF ~valid
      THEN [addresses |-> addrs, code |-> 500]
      ELSE [addresses |-> Append(mapped, [id |-> id, isDefault |-> first]),
            code |-> 200]

\* PUT /addresses/:addressId.  When the copy loses the fields, the entry
\* is what the body alone gives, under a new id.
UpdateAddress(addrs, addressId, fresh, body, kept) ==
  LET k == IndexOf(addrs, addressId)
      mapped == IF Truthy(body.isDefault) THEN ClearDefaults(addrs) ELSE addrs
      valid == kept \/ (body.complete /\ (Truthy(body.isDefault) => Len(addrs) = 1))
      entry == IF kept
               THEN [mapped[k] EXCEPT !.isDefault =
                       IF body.isDefault = "undefined" THEN @ ELSE Truthy(body.isDefault)]
               ELSE [id |-> fresh, isDefault |-> Truthy(body.isDefault)]
  IN  IF k = 0 THEN [addresses |-> addrs, code |-> 404]
      ELSE IF ~valid THEN [addresses |-> addrs, code |-> 500]
      ELSE [addresses |-> [mapped EXCEPT ![k] = entry], code |-> 200]

\* DELETE /addresses/:addressId.
DeleteAddress(addrs, addressId) ==
  LET k == IndexOf(addrs, addressId)
      rest == Remove(addrs, k)
  IN  IF k = 0 THEN [addresses |-> addrs, code |-> 404]
      ELSE [addresses |-> IF addrs[k].isDefault /\ Len(rest) > 0
                          THEN [rest EXCEPT ![1].isDefault = TRUE]
                          ELSE rest,
            code |-> 200]

\* PUT /addresses/:addressId/default.
SetDefaultAddress(addrs, addressId, kept) ==
  LET k == IndexOf(addrs, addressId)
  IN  IF k = 0 THEN [addresses |-> addrs, code |-> 404]
      ELSE IF ~kept THEN [addresses |-> addrs, code |-> 500]
      ELSE [addresses |-> [i \in DOMAIN addrs |-> [addrs[i] EXCEPT !.isDefault = (i = k)]],
            code |-> 200]

\* user.addresses = user.addresses.map(...): the path is modified when the
\* list assigned differs from the list read.  The copies of the entries of
\* a list differ from the entries when the copy loses their fields; the
\* copy of an empty list is the list.
ListModified(addrs, mapped, kept) == Len(addrs) > 0 /\ (~kept \/ mapped # addrs)

AddressIds == 1..MaxAddresses
BookFrame == <<shop, accounts, now, pwd, resetreq, roles, rolereq, gallery, slidereq>>

(***************************************************************************)
(* The address routes step by step: the handler reads the user document,   *)
(* changes its copy of the list and saves it.  The store keeps a version   *)
(* of the document: a save that writes the whole list or an entry by its   *)
(* position is rejected when the version is no longer the one read, a save *)
(* that only pushes an entry is not, and a save of a document that was not *)
(* modified writes nothing.                                                *)
(***************************************************************************)
IdleBookRequest ==
  [pc |-> "idle", op |-> "none", addressId |-> 0,
   body |-> [isDefault |-> "undefined", complete |-> FALSE], kept |-> FALSE,
   addresses |-> <<>>, version |-> 0, code |-> 0]

Settled == \A k \in Callers : bookreq[k].pc = "idle"

\* A step that writes no document.
BookLocal(k, me) ==
  /\ bookreq' = [bookreq EXCEPT ![k] = me]
  /\ UNCHANGED <<book, BookFrame>>

\* The ids given out so far: one more when the list written has a new id.
Minted(addrs, minted) ==
  IF \E i \in DOMAIN addrs : addrs[i].id > minted THEN minted + 1 ELSE minted

\* await user.save() writing the whole list: the version must be the one
\* read.  r is the outcome of the handler on its copy of the list.
SaveList(k, r) ==
  LET me == bookreq[k]
  IN  IF r.code # 200
      THEN BookLocal(k, [me EXCEPT !.pc = "done", !.code = r.code])
      ELSE IF book.version # me.version
      THEN BookLocal(k, [me EXCEPT !.pc = "done", !.code = 500])
      ELSE /\ book' = [addresses |-> r.addresses,
                       minted |-> Minted(r.addresses, book.minted),
                       version |-> book.version + 1]
           /\ bookreq' = [bookreq EXCEPT ![k] = [me EXCEPT !.pc = "done", !.code = 200]]
           /\ UNCHANGED BookFrame

\* User.findById for one of the four routes; the routes that address an
\* entry answer 404 when the list read has none with the id.
AddressFind(k, op, addressId, body, kept) ==
  /\ bookreq[k].pc = "idle"
  /\ LET me == [IdleBookRequest EXCEPT !.op = op, !.addressId = addressId,
                                       !.body = body, !.kept = kept,
                                       !.addresses = book.addresses,
                                       !.version = book.version]
     IN  BookLocal(k, IF op # "add" /\ IndexOf(book.addresses, addressId) = 0
                      THEN [me EXCEPT !.pc = "done", !.code = 404]
                      ELSE [me EXCEPT !.pc = "save"])

\* POST /addresses: the list is written whole when the entry becomes the
\* default and the mapping modified the list read, else the entry is
\* pushed onto the stored list.
AddAddressSave(k) ==
  /\ bookreq[k].pc = "save"
  /\ bookreq[k].op = "add"
  /\ LET me == bookreq[k]
         r == AddAddress(me.addresses, book.minted + 1, me.body, me.kept)
         first == Len(me.addresses) = 0 \/ Truthy(me.body.isDefault)
         whole == first /\ ListModified(me.addresses, ClearDefaults(me.addresses),
                                        me.kept)
     IN  IF whole \/ r.code # 200
         THEN SaveList(k, r)
         ELSE /\ book' = [addresses |-> Append(book.addresses, r.addresses[Len(r.addresses)]),
                          minted |-> book.minted + 1,
                          version |-> book.version + 1]
              /\ bookreq' = [bookreq EXCEPT ![k] = [me EXCEPT !.pc = "done", !.code = 200]]
              /\ UNCHANGED BookFrame

\* PUT /addresses/:addressId: the list is written whole when the body asks
\* for the default and the mapping modified the list read, else the entry
\* is written at its position.
UpdateAddressSave(k) ==
  /\ bookreq[k].pc = "save"
  /\ bookreq[k].op = "update"
  /\ LET me == bookreq[k]
         r == UpdateAddress(me.addresses, me.addressId, book.minted + 1, me.body, me.kept)
         pos == IndexOf(me.addresses, me.addressId)
         whole == Truthy(me.body.isDefault)
                    /\ ListModified(me.addresses, ClearDefaults(me.addresses), me.kept)
     IN  IF whole \/ r.code # 200 \/ book.version # me.version
         THEN SaveList(k, r)
         ELSE /\ book' = [addresses |-> [book.addresses EXCEPT ![pos] = r.addresses[pos]],
                          minted |-> Minted(r.addresses, book.minted),
                          version |-> book.version]
              /\ bookreq' = [bookreq EXCEPT ![k] = [me EXCEPT !.pc = "done", !.code = 200]]
              /\ UNCHANGED BookFrame

\* DELETE /addresses/:addressId.
DeleteAddressSave(k) ==
  /\ bookreq[k].pc = "save"
  /\ bookreq[k].op = "delete"
  /\ SaveList(k, DeleteAddress(bookreq[k].addresses, bookreq[k].addressId))

\* PUT /addresses/:addressId/default: when the address is the only default
\* of the list read, the list assigned is the list read and the save
\* writes nothing.
SetDefaultAddressSave(k) ==
  /\ bookreq[k].pc = "save"
  /\ bookreq[k].op = "default"
  /\ LET me == bookreq[k]
         r == SetDefaultAddress(me.addresses, me.addressId, me.kept)
     IN  IF r.code = 200 /\ ~ListModified(me.addresses, r.addresses, me.kept)
         THEN BookLocal(k, [me EXCEPT !.pc = "done", !.code = 200])
         ELSE SaveList(k, r)

\* The caller receives the response.
BookReceive(k) ==
  /\ bookreq[k].pc = "done"
  /\ BookLocal(k, IdleBookRequest)

\* The requests explored: the routes use of the request what is listed.
AddressRequests ==
  (IF book.minted < MaxAddresses
   THEN {<<"add", 0, body, kept>> : body \in AddressBodies, kept \in BOOLEAN} \cup
        {<<"update", id, body, kept>> :
           id \in AddressIds, body \in AddressBodies, kept \in BOOLEAN}
   ELSE {}) \cup
  {<<"delete", id, [isDefault |-> "undefined", complete |-> FALSE], FALSE>> :
     id \in AddressIds} \cup
  {<<"default", id, [isDefault |-> "undefined", complete |-> FALSE], kept>> :
     id \in AddressIds, kept \in BOOLEAN}

(***************************************************************************)
(* The slide routes: POST /admin, PUT /admin/:id and DELETE /admin/:id,    *)
(* with the image files of the bucket.  The requests are those of callers  *)
(* that passed the admin gate, and the database is connected.              *)
(***************************************************************************)
MaxSlides == 2                       \* slides created in a run
MaxFiles == 3                        \* upload streams opened in a run
NoImage == 0
SlideIds == 1..MaxSlides
Editors == {"e1", "e2"}              \* connections of the admin panel

\* req.body.title: absent, blank, or a title.
TitleInputs == {"", " ", "Sale", "Offer"}

\* The schema trims the title when it is assigned.
Trim(title) == IF title = " " THEN "" ELSE title

\* What becomes of the upload stream: it finishes, it fails, the 30 s
\* timer fires and the stream never finishes, or the timer fires and the
\* stream finishes afterwards.
UploadOutcomes == {"finish", "error", "timeout", "late"}

\* req.body.image: the id of a file the bucket has or had, a value that is
\* no ObjectId (a URL), or none.
StrayImages == {-1}
ImageInputs == (1..gallery.fileIds) \cup StrayImages \cup {NoImage}

\* ObjectId.isValid(slide.image): the ids of the files are ObjectIds.
IsObjectId(image) == image > 0

\* A slide document, reduced to the title and the image.
NoSlide == [title |-> "", image |-> NoImage]

\* Validation of a slide before it is written: the title is required.
SlideValid(doc) == doc.title # ""

\* The paths of the slide the handler changed.
SlideModified(read, doc) == {f \in DOMAIN doc : doc[f] # read[f]}

NoSlideUpdate == [sid |-> 0, code |-> 0, before |-> NoImage, held |-> FALSE]
IdleSlideRequest ==
  [pc |-> "idle", op |-> "none", sid |-> 0, title |-> "", file |-> FALSE,
   image |-> NoImage, fileId |-> 0, read |-> NoSlide, doc |-> NoSlide,
   held |-> FALSE, code |-> 0]

GalleryFrame == <<shop, accounts, now, pwd, resetreq, roles, rolereq, book, bookreq>>

\* No slide request is in flight.
Still == \A k \in Editors : slidereq[k].pc = "idle"

\* The upload streams opened and those a request in flight may still open.
FilesClaimed ==
  gallery.fileIds +
  Cardinality({k \in Editors : /\ slidereq[k].op = "update" /\ slidereq[k].file
                               /\ slidereq[k].pc \in {"find", "delete"}})

\* The slides created and those a request in flight may still create.
SlidesClaimed ==
  gallery.slideIds +
  Cardinality({k \in Editors : slidereq[k].op = "create" /\ slidereq[k].pc # "done"})

\* res.status(code).json(...): the handler returns.
SlideAnswer(me, code) == [me EXCEPT !.pc = "done", !.code = code]

\* The answer of an update of a slide that was found, with the image the
\* slide had when it was read.
UpdateAnswer(me, code) ==
  [sid |-> me.sid, code |-> code, before |-> me.read.image, held |-> me.held]

\* A step that writes neither a slide nor a file.
SlideLocal(k, me) ==
  /\ slidereq' = [slidereq EXCEPT ![k] = me]
  /\ UNCHANGED <<gallery, GalleryFrame>>

\* bucket.openUploadStream: the stream has its id when it is opened.
NewFileId(file) == IF file THEN gallery.fileIds + 1 ELSE 0
StreamOpened(file) == [gallery EXCEPT !.fileIds = IF file THEN @ + 1 ELSE @]

\* What the promise of the upload leaves in the bucket: the file when the
\* stream has finished, a running stream when the timer fired first.
Uploaded(fileId, outcome) ==
  [gallery EXCEPT
     !.files = IF outcome = "finish" THEN @ \cup {fileId} ELSE @,
     !.streams = IF outcome = "late" THEN @ \cup {fileId} ELSE @]

\* bucket.delete(id): the file is removed, or the call fails and the
\* handler goes on (a file that is not there makes it fail).
Unlinked(image, ok) ==
  [gallery EXCEPT !.files = IF ok THEN @ \ {image} ELSE @]

\* POST /admin up to its first await: the title and the image are required;
\* with a file the upload stream is opened and awaited.
CreateSlideArrive(k, title, file, image) ==
  /\ slidereq[k].pc = "idle"
  /\ LET me == [IdleSlideRequest EXCEPT !.op = "create", !.title = title,
                                        !.file = file, !.image = image]
     IN  IF title = "" \/ (~file /\ image = NoImage)
         THEN SlideLocal(k, SlideAnswer(me, 400))
         ELSE /\ slidereq' = [slidereq EXCEPT ![k] =
                   IF file
                   THEN [me EXCEPT !.pc = "upload", !.fileId = NewFileId(file)]
                   ELSE [me EXCEPT !.pc = "save",
                                   !.doc = [title |-> Trim(title), image |-> image]]]
              /\ gallery' = StreamOpened(file)
              /\ UNCHANGED GalleryFrame

\* The promise of the upload settles: imageId is the id of the stream, or
\* the handler answers 500.
CreateSlideUpload(k, outcome) ==
  /\ slidereq[k].pc = "upload"
  /\ slidereq[k].op = "create"
  /\ LET me == slidereq[k]
     IN  /\ gallery' = Uploaded(me.fileId, outcome)
         /\ slidereq' = [slidereq EXCEPT ![k] =
              IF outcome = "finish"
              THEN [me EXCEPT !.pc = "save",
                              !.doc = [title |-> Trim(me.title), image |-> me.fileId]]
              ELSE SlideAnswer(me, 500)]
  /\ UNCHANGED GalleryFrame

\* new Slide({...}); await slide.save(): a slide that fails the validation
\* is answered 500.
CreateSlideSave(k) ==
  /\ slidereq[k].pc = "save"
  /\ slidereq[k].op = "create"
  /\ LET me == slidereq[k]
         id == gallery.slideIds + 1
     IN  IF SlideValid(me.doc)
         THEN /\ gallery' = [gallery EXCEPT
                   !.slides = [s \in (DOMAIN @) \cup {id} |->
                                 IF s = id THEN me.doc ELSE @[s]],
                   !.slideIds = id]
              /\ slidereq' = [slidereq EXCEPT ![k] = SlideAnswer(me, 201)]
         ELSE /\ slidereq' = [slidereq EXCEPT ![k] = SlideAnswer(me, 500)]
              /\ UNCHANGED gallery
  /\ UNCHANGED GalleryFrame

\* PUT /admin/:id arrives.
UpdateSlideArrive(k, sid, title, file, image) ==
  /\ slidereq[k].pc = "idle"
  /\ slidereq' = [slidereq EXCEPT ![k] =
       [IdleSlideRequest EXCEPT !.pc = "find", !.op = "update", !.sid = sid,
                                !.title = title, !.file = file, !.image = image]]
  /\ UNCHANGED <<gallery, GalleryFrame>>

\* await Slide.findById: 404, or the fields of the body are assigned.  With
\* a file the old image is deleted first when its id is an ObjectId, and
\* the upload stream is opened otherwise; without one req.body.image is
\* assigned as it is.
UpdateSlideFind(k) ==
  /\ slidereq[k].pc = "find"
  /\ slidereq[k].op = "update"
  /\ LET me == slidereq[k]
         found == me.sid \in DOMAIN gallery.slides
         read == gallery.slides[me.sid]
         titled == [read EXCEPT !.title = IF me.title # "" THEN Trim(me.title) ELSE @]
         seen == [me EXCEPT !.read = read, !.held = read.image \in gallery.files]
         opens == found /\ me.file /\ ~IsObjectId(read.image)
     IN  /\ slidereq' = [slidereq EXCEPT ![k] =
              IF ~found THEN SlideAnswer(me, 404)
              ELSE IF me.file /\ IsObjectId(read.image)
              THEN [seen EXCEPT !.pc = "delete", !.doc = titled]
              ELSE IF me.file
              THEN [seen EXCEPT !.pc = "upload", !.doc = titled,
                                !.fileId = NewFileId(TRUE)]
              ELSE [seen EXCEPT !.pc = "save",
                                !.doc = [titled EXCEPT !.image =
                                           IF me.image # NoImage THEN me.image ELSE @]]]
         /\ gallery' = StreamOpened(opens)
  /\ UNCHANGED GalleryFrame

\* await bucket.delete of the old image, its failure swallowed; then the
\* upload stream is opened.
UpdateSlideDelete(k, ok) ==
  /\ slidereq[k].pc = "delete"
  /\ slidereq[k].op = "update"
  /\ ok => slidereq[k].read.image \in gallery.files
  /\ LET me == slidereq[k]
         unlinked == Unlinked(me.read.image, ok)
     IN  /\ gallery' = [unlinked EXCEPT !.fileIds = @ + 1]
         /\ slidereq' = [slidereq EXCEPT ![k] =
              [me EXCEPT !.pc = "upload", !.fileId = gallery.fileIds + 1]]
  /\ UNCHANGED GalleryFrame

\* The promise of the upload settles: slide.image is the id of the stream,
\* or the handler answers 500 and the slide is not saved.
UpdateSlideUpload(k, outcome) ==
  /\ slidereq[k].pc = "upload"
  /\ slidereq[k].op = "update"
  /\ LET me == slidereq[k]
         uploaded == Uploaded(me.fileId, outcome)
     IN  IF outcome = "finish"
         THEN /\ gallery' = uploaded
              /\ slidereq' = [slidereq EXCEPT ![k] =
                   [me EXCEPT !.pc = "save", !.doc.image = me.fileId]]
         ELSE /\ gallery' = [uploaded EXCEPT !.last = UpdateAnswer(me, 500)]
              /\ slidereq' = [slidereq EXCEPT ![k] = SlideAnswer(me, 500)]
  /\ UNCHANGED GalleryFrame

\* await slide.save(): the modified paths are validated and written.  With
\* no path modified nothing is written and the save only looks the slide
\* up; a slide that is gone makes the save fail either way.
UpdateSlideSave(k) ==
  /\ slidereq[k].pc = "save"
  /\ slidereq[k].op = "update"
  /\ LET me == slidereq[k]
         modified == SlideModified(me.read, me.doc)
         code == IF modified # {} /\ ~SlideValid(me.doc) THEN 500
                 ELSE IF me.sid \notin DOMAIN gallery.slides THEN 500
                 ELSE 200
         written == IF code = 200 /\ modified # {}
                    THEN [gallery.slides EXCEPT ![me.sid] =
                            [f \in DOMAIN @ |-> IF f \in modified THEN me.doc[f] ELSE @[f]]]
                    ELSE gallery.slides
     IN  /\ gallery' = [gallery EXCEPT !.slides = written,
                                       !.last = UpdateAnswer(me, code)]
         /\ slidereq' = [slidereq EXCEPT ![k] = SlideAnswer(me, code)]
  /\ UNCHANGED GalleryFrame

\* DELETE /admin/:id arrives.
DeleteSlideArrive(k, sid) ==
  /\ slidereq[k].pc = "idle"
  /\ SlideLocal(k, [IdleSlideRequest EXCEPT !.pc = "find", !.op = "delete", !.sid = sid])

\* await Slide.findById: 404, or the image is deleted first when its id is
\* an ObjectId.
DeleteSlideFind(k) ==
  /\ slidereq[k].pc = "find"
  /\ slidereq[k].op = "delete"
  /\ LET me == slidereq[k]
     IN  SlideLocal(k, IF me.sid \notin DOMAIN gallery.slides
                       THEN SlideAnswer(me, 404)
                       ELSE [me EXCEPT
                               !.read = gallery.slides[me.sid],
                               !.pc = IF IsObjectId(gallery.slides[me.sid].image)
                                      THEN "unlink" ELSE "remove"])

\* await bucket.delete of the image, its failure swallowed.
DeleteSlideUnlink(k, ok) ==
  /\ slidereq[k].pc = "unlink"
  /\ ok => slidereq[k].read.image \in gallery.files
  /\ gallery' = Unlinked(slidereq[k].read.image, ok)
  /\ slidereq' = [slidereq EXCEPT ![k].pc = "remove"]
  /\ UNCHANGED GalleryFrame

\* await slide.deleteOne(): the slide is removed if it is still there.
DeleteSlideRemove(k) ==
  /\ slidereq[k].pc = "remove"
  /\ LET me == slidereq[k]
     IN  /\ gallery' = [gallery EXCEPT
              !.slides = [s \in (DOMAIN @) \ {me.sid} |-> @[s]]]
         /\ slidereq' = [slidereq EXCEPT ![k] = SlideAnswer(me, 200)]
  /\ UNCHANGED GalleryFrame

\* An upload stream whose timer fired finishes: the file is in the bucket
\* and no slide names it.
StreamFinish(fileId) ==
  /\ fileId \in gallery.streams
  /\ gallery' = [gallery EXCEPT !.files = @ \cup {fileId}, !.streams = @ \ {fileId}]
  /\ UNCHANGED <<slidereq, GalleryFrame>>

\* The caller receives the response.
SlideReceive(k) ==
  /\ slidereq[k].pc = "done"
  /\ slidereq' = [slidereq EXCEPT ![k] = IdleSlideRequest]
  /\ gallery' = [gallery EXCEPT !.last = NoSlideUpdate]
  /\ UNCHANGED GalleryFrame

(***************************************************************************)
(* Initial state and specifications.  The handlers' steps are the same in  *)
(* every specification; a specification of requests executed one at a time *)
(* lets a request arrive only when no other is in flight.                  *)
(***************************************************************************)
Init ==
  /\ stock = [p \in CatalogIds |-> InitStock]
  /\ orders = <<>>
  /\ race = [c \in Slots |-> IdleClient]
  /\ hist = NoHistory
  /\ calc = NoCalc
  /\ accounts = [id \in FirstAccounts |-> NewAccount("u1@shop", "Passw0rdA")]
  /\ now = 0
  /\ pwd = [minted |-> 0, drawn |-> 0, edits |-> 0, before |-> NoAccounts,
            otpLog |-> [id \in AccountIds |-> NoOtpLog],
            tokenLog |-> <<>>,
            blocked |-> [id \in AccountIds |-> FALSE]]
  /\ resetreq = [k \in Callers |-> IdleReset]
  /\ roles = [m \in Members |-> IF m \in FirstAdmins THEN "admin" ELSE "user"]
  /\ rolereq = [m \in Members |-> IdleRoleRequest]
  /\ book = [addresses |-> <<>>, minted |-> 0, version |-> 0]
  /\ bookreq = [k \in Callers |-> IdleBookRequest]
  /\ gallery = [slides |-> <<>>, files |-> {}, streams |-> {}, slideIds |-> 0,
                fileIds |-> 0, last |-> NoSlideUpdate]
  /\ slidereq = [k \in Editors |-> IdleSlideRequest]

\* The connection of the requests executed one at a time.
SerialClients == {"c1"}

\* The bodies of the create requests that can arrive.
CreateBodies ==
  IF Len(orders) < MaxOrders THEN Customers \X ReqItemLists \X PaymentInputs ELSE {}
FlowBodies ==
  IF Len(orders) < MaxOrders THEN Customers \X FlowItemLists \X PaymentInputs ELSE {}
RaceBodies ==
  IF Len(orders) < MaxOrders THEN Customers \X RaceItemLists \X {"cod"} ELSE {}

\* Over a catalog that changes, the create requests explored are the valid
\* ones for one piece each of one or two products, up to MaxCatalogOrders.
MaxCatalogOrders == 1
CatalogItemLists ==
  UNION {[1..n -> [id : {NoId}, product : CatalogIds, quantity : {1}]] :
           n \in 1..MaxItems}
CatalogBodies ==
  IF Len(orders) < MaxCatalogOrders /\ Len(orders) < MaxOrders
  THEN Customers \X CatalogItemLists \X {"cod"} ELSE {}

\* The steps of POST /orders up to its mails.
CreateSteps ==
  \/ \E c \in Slots : RaceValidate(c)
  \/ \E c \in Slots, trk \in DrawnCodes : RaceSave(c, trk)
  \/ \E c \in Slots : RaceFind(c)
  \/ \E c \in Slots : RaceWrite(c)

\* The steps of the mails of POST /orders when every mail goes out.
CreateMails ==
  \/ \E c \in Slots : CreateNotify(c)
  \/ \E c \in Slots : CreateMailCustomer(c, "sent", TRUE)
  \/ \E c \in Slots : CreateMailAdmin(c, "sent")

\* The steps of the two stock loops over the items of an order.
LoopSteps ==
  \/ \E c \in Slots : RestoreRead(c)
  \/ \E c \in Slots : RestoreWrite(c)
  \/ \E c \in Slots : DeductRead(c)
  \/ \E c \in Slots : DeductWrite(c)

\* The steps of the status update and of the cancel up to the mail.
StatusSteps ==
  \/ \E c \in Slots : StatusFind(c)
  \/ \E c \in Slots : StatusSave(c)
  \/ \E c \in Slots : CancelFind(c)
  \/ \E c \in Slots : CancelSave(c)

\* Create, status update and cancel, one request at a time.
Next ==
  \/ /\ Quiet
     /\ \E c \in SerialClients :
          \/ \E q \in CreateBodies : CreateArrive(c, q[1], q[2], q[3])
          \/ \E u \in Users, oid \in OrderIds, status \in StatusInputs :
                StatusArrive(c, u, oid, status)
          \/ \E u \in Users, oid \in OrderIds, reason \in Reasons :
                CancelArrive(c, u, oid, reason)
  \/ CreateSteps
  \/ LoopSteps
  \/ StatusSteps
  \/ CreateMails
  \/ \E c \in Slots : StatusNotify(c, "sent")
  \/ \E c \in Slots : Acknowledge(c)

Spec == Init /\ [][Next]_vars

\* Create requests of two connections whose steps interleave.
NextRace ==
  \/ \E c \in Clients, q \in RaceBodies : CreateArrive(c, q[1], q[2], q[3])
  \/ CreateSteps
  \/ CreateMails

SpecRace == Init /\ [][NextRace]_vars

\* Requests that would raise a stock above MaxStock are not explored.
StockCapped == \A p \in DOMAIN stock : stock[p] <= MaxStock

\* The order requests over a catalog that an administrator edits, one
\* request at a time.
NextCatalog ==
  \/ /\ Quiet
     /\ \E c \in SerialClients :
          \/ \E q \in CatalogBodies : CreateArrive(c, q[1], q[2], q[3])
          \/ \E u \in Users, oid \in OrderIds, status \in CatalogStatusInputs :
                StatusArrive(c, u, oid, status)
          \/ \E u \in Users, oid \in OrderIds, reason \in Reasons :
                CancelArrive(c, u, oid, reason)
          \/ \E u \in Users, pid \in AllIds : DeleteArrive(c, u, pid)
          \/ \E u \in Users, pid \in AllIds, field \in StockFields :
                EditArrive(c, u, pid, field)
          \/ \E u \in Users, pid \in AllIds, field \in StockFields :
                PutArrive(c, u, pid, field)
          \/ /\ FreshProductIds # {}
             /\ \E u \in Users, field \in StockFields, complete \in BOOLEAN :
                   \/ AddArrive(c, u, field, complete)
                   \/ PostArrive(c, u, field, complete)
  \/ CreateSteps
  \/ LoopSteps
  \/ StatusSteps
  \/ CreateMails
  \/ \E c \in Slots : StatusNotify(c, "sent")
  \/ \E c \in Slots, unlinked \in BOOLEAN : DeleteFind(c, unlinked)
  \/ \E c \in Slots : DeleteRemove(c)
  \/ \E c \in Slots : EditFind(c)
  \/ \E c \in Slots : EditSave(c)
  \/ \E c \in Slots : PutFind(c)
  \/ \E c \in Slots : PutSave(c)
  \/ \E c \in Slots, pid \in FreshProductIds : AddSave(c, pid)
  \/ \E c \in Slots, pid \in FreshProductIds : PostSave(c, pid)
  \/ \E c \in Slots : Acknowledge(c)

SpecCatalog == Init /\ [][NextCatalog /\ StockCapped']_vars

\* The whole order workflow with the outcomes of its mails, one request at
\* a time.  Payment verification followed by a cancellation releases the
\* stock of an order again and again: the exploration stops at MaxStock.
NextFlow ==
  \/ /\ Quiet
     /\ \E c \in SerialClients :
          \/ \E q \in FlowBodies : CreateArrive(c, q[1], q[2], q[3])
          \/ \E u \in FlowUsers, oid \in OrderIds, status \in StatusInputs :
                StatusArrive(c, u, oid, status)
          \/ \E u \in FlowUsers, oid \in OrderIds, reason \in Reasons :
                CancelArrive(c, u, oid, reason)
          \/ \E u \in FlowUsers, oid \in OrderIds, bank \in BankDetails :
                RefundArrive(c, u, oid, bank)
          \/ \E oid \in OrderIds : VerifyArrive(c, oid)
  \/ CreateSteps
  \/ LoopSteps
  \/ StatusSteps
  \/ \E c \in Slots : CreateNotify(c)
  \/ \E c \in Slots, m \in MailOutcomes, configured \in BOOLEAN :
        CreateMailCustomer(c, m, configured)
  \/ \E c \in Slots, m \in MailOutcomes : CreateMailAdmin(c, m)
  \/ \E c \in Slots, m \in MailOutcomes : StatusNotify(c, m)
  \/ \E c \in Slots : RefundFind(c)
  \/ \E c \in Slots : RefundSave(c)
  \/ \E c \in Slots : VerifyFind(c)
  \/ \E c \in Slots : VerifySave(c)
  \/ \E c \in Slots : Acknowledge(c)

SpecFlow == Init /\ [][NextFlow /\ StockCapped']_vars

\* Create requests of two connections and a product request of an
\* administrator, whose steps interleave.
NextRaceCatalog ==
  \/ NextRace
  \/ \E s \in Staff, u \in Admins, pid \in CatalogIds : DeleteArrive(s, u, pid)
  \/ \E s \in Staff, u \in Admins, pid \in CatalogIds, field \in StockFields :
        \/ EditArrive(s, u, pid, field)
        \/ PutArrive(s, u, pid, field)
  \/ \E s \in Staff, unlinked \in BOOLEAN : DeleteFind(s, unlinked)
  \/ \E s \in Staff : DeleteRemove(s)
  \/ \E s \in Staff : EditFind(s)
  \/ \E s \in Staff : EditSave(s)
  \/ \E s \in Staff : PutFind(s)
  \/ \E s \in Staff : PutSave(s)

SpecRaceCatalog == Init /\ [][NextRaceCatalog]_vars

\* Orders are created one at a time; then cancels by the customer and
\* status updates by an administrator arrive on the two connections and
\* their steps interleave.
Cancelling == \E c \in Clients : race[c].op \in {"cancel", "status"}

NextCancelRace ==
  \/ /\ ~Cancelling
     /\ \/ /\ Quiet
           /\ \E c \in SerialClients, q \in RaceBodies :
                 CreateArrive(c, q[1], q[2], q[3])
        \/ CreateSteps
        \/ CreateMails
        \/ \E c \in Slots : Acknowledge(c)
  \/ /\ \A c \in Clients : race[c].op # "create"
     /\ \E c \in Clients, oid \in 1..Len(orders) :
          \/ \E u \in Customers, reason \in Reasons : CancelArrive(c, u, oid, reason)
          \/ \E u \in Admins, status \in StatusInputs : StatusArrive(c, u, oid, status)
  \/ LoopSteps
  \/ StatusSteps
  \/ \E c \in Slots : StatusNotify(c, "sent")

SpecCancelRace == Init /\ [][NextCancelRace]_vars

\* One order request on each of the two connections, at any time: a
\* request can act on an order that a create request has saved and whose
\* stock it has not yet decremented, or whose mails are not yet out.
NextOverlap ==
  \/ \E c \in Clients :
       \/ \E q \in CatalogBodies : CreateArrive(c, q[1], q[2], q[3])
       \/ \E oid \in 1..Len(orders) :
            \/ \E u \in Customers, reason \in Reasons : CancelArrive(c, u, oid, reason)
            \/ \E u \in Admins, status \in CatalogStatusInputs :
                  StatusArrive(c, u, oid, status)
            \/ VerifyArrive(c, oid)
  \/ CreateSteps
  \/ LoopSteps
  \/ StatusSteps
  \/ CreateMails
  \/ \E c \in Slots : StatusNotify(c, "sent")
  \/ \E c \in Slots : VerifyFind(c)
  \/ \E c \in Slots : VerifySave(c)

SpecOverlap == Init /\ [][NextOverlap /\ StockCapped']_vars

\* The _id the store gives the next user document.
FreeAccountIds ==
  IF AccountIds \subseteq DOMAIN accounts THEN {}
  ELSE {First(AccountIds \ DOMAIN accounts)}

\* The steps of the account routes after the first.
ResetSteps ==
  \/ \E k \in Callers : ForgotStore(k)
  \/ \E k \in Callers, sent \in BOOLEAN : ForgotSend(k, sent)
  \/ \E k \in Callers : ForgotClear(k)
  \/ \E k \in Callers : VerifyOtpStore(k)
  \/ \E k \in Callers : ResetStore(k)
  \/ \E k \in Callers : ResetConfirm(k)
  \/ \E k \in Callers : Receive(k)

\* The routes of the password reset, one request at a time; the clock
\* moves between the requests.
NextReset ==
  \/ /\ Calm
     /\ \E k \in {"k1"} :
          \/ \E email \in EmailInputs, otp \in Otps : ForgotFind(k, email, otp)
          \/ \E email \in EmailInputs, otp \in OtpInputs : VerifyOtpFind(k, email, otp)
          \/ \E token \in TokenInputs, password \in PasswordInputs :
                ResetFind(k, token, password)
  \/ /\ Calm
     /\ \E d \in Advances : Tick(d)
  \/ ResetSteps

SpecReset == Init /\ [][NextReset]_vars

\* All the account routes, one request at a time, at one moment: users
\* register, change their email and their password between the requests
\* of the password reset.
NextAccounts ==
  \/ /\ Calm
     /\ \E k \in {"k1"} :
          \/ \E email \in EmailInputs, otp \in Otps : ForgotFind(k, email, otp)
          \/ \E email \in EmailInputs, otp \in OtpInputs : VerifyOtpFind(k, email, otp)
          \/ \E token \in TokenInputs, password \in PasswordInputs :
                ResetFind(k, token, password)
          \/ /\ pwd.edits < MaxEdits
             /\ \/ \E id \in AccountIds, current \in PasswordInputs,
                       new \in PasswordInputs : ChangeArrive(k, id, current, new)
                \/ /\ FreeAccountIds # {}
                   /\ \E email \in EmailStrings, password \in PasswordInputs :
                         RegisterFind(k, email, password)
                \/ \E id \in AccountIds, email \in EmailStrings :
                      UpdateArrive(k, id, email)
  \/ ResetSteps
  \/ \E k \in Callers : ChangeFind(k)
  \/ \E k \in Callers : ChangeCompare(k)
  \/ \E k \in Callers : ChangeStore(k)
  \/ \E k \in Callers, id \in FreeAccountIds : RegisterStore(k, id)
  \/ \E k \in Callers : UpdateCheck(k)
  \/ \E k \in Callers : UpdateStore(k)

SpecAccounts == Init /\ [][NextAccounts]_vars

\* The three routes of the password reset on two connections, whose steps
\* interleave.
MaxRaceCodes == 2                    \* codes drawn when the requests interleave
RacePasswords == {"Passw0rdB", "weak"}

NextResetRace ==
  \/ \E k \in Callers :
       \/ /\ pwd.drawn < MaxRaceCodes
          /\ \E email \in EmailInputs, otp \in Otps : ForgotFind(k, email, otp)
       \/ \E email \in EmailInputs, otp \in OtpInputs : VerifyOtpFind(k, email, otp)
       \/ \E token \in TokenInputs, password \in RacePasswords :
             ResetFind(k, token, password)
  \/ ResetSteps

SpecResetRace == Init /\ [][NextResetRace]_vars

NextRoles ==
  \/ \E caller \in Members, target \in TargetInputs, role \in RoleInputs :
        RoleArrive(caller, target, role)
  \/ \E caller \in Members : RoleFind(caller)
  \/ \E caller \in Members : RoleSave(caller)

SpecRoles == Init /\ [][NextRoles]_vars

\* The steps of the address routes after the first.
BookSteps ==
  \/ \E k \in Callers : AddAddressSave(k)
  \/ \E k \in Callers : UpdateAddressSave(k)
  \/ \E k \in Callers : DeleteAddressSave(k)
  \/ \E k \in Callers : SetDefaultAddressSave(k)
  \/ \E k \in Callers : BookReceive(k)

\* The address routes, one request at a time.
NextBook ==
  \/ /\ Settled
     /\ book.version < MaxVersion
     /\ \E k \in {"k1"}, q \in AddressRequests : AddressFind(k, q[1], q[2], q[3], q[4])
  \/ BookSteps

SpecBook == Init /\ [][NextBook]_vars

\* The address routes on two connections, whose steps interleave.
NextBookRace ==
  \/ /\ book.version < MaxRaceVersion
     /\ \E k \in Callers, q \in AddressRequests : AddressFind(k, q[1], q[2], q[3], q[4])
  \/ BookSteps

SpecBookRace == Init /\ [][NextBookRace]_vars

\* The requests of the slide routes that arrive on connection k: a request
\* with a file while an upload stream can still be opened, a create while a
\* slide can still be created.
SlideArrivals(k, titles, images, streams) ==
  \/ /\ SlidesClaimed < MaxSlides
     /\ \E title \in titles, file \in BOOLEAN, image \in images :
           /\ file => FilesClaimed < streams
           /\ CreateSlideArrive(k, title, file, image)
  \/ \E sid \in SlideIds, title \in titles, file \in BOOLEAN, image \in images :
        /\ file => FilesClaimed < streams
        /\ UpdateSlideArrive(k, sid, title, file, image)
  \/ \E sid \in SlideIds : DeleteSlideArrive(k, sid)

SlideSteps ==
  \/ \E k \in Editors, outcome \in UploadOutcomes : CreateSlideUpload(k, outcome)
  \/ \E k \in Editors : CreateSlideSave(k)
  \/ \E k \in Editors : UpdateSlideFind(k)
  \/ \E k \in Editors, ok \in BOOLEAN : UpdateSlideDelete(k, ok)
  \/ \E k \in Editors, outcome \in UploadOutcomes : UpdateSlideUpload(k, outcome)
  \/ \E k \in Editors : UpdateSlideSave(k)
  \/ \E k \in Editors : DeleteSlideFind(k)
  \/ \E k \in Editors, ok \in BOOLEAN : DeleteSlideUnlink(k, ok)
  \/ \E k \in Editors : DeleteSlideRemove(k)
  \/ \E fileId \in 1..MaxFiles : StreamFinish(fileId)
  \/ \E k \in Editors : SlideReceive(k)

\* The slide routes, one request at a time.
NextGallery ==
  \/ Still /\ SlideArrivals("e1", TitleInputs, ImageInputs, MaxFiles)
  \/ SlideSteps

SpecGallery == Init /\ [][NextGallery]_vars

\* The slide routes on two connections, whose steps interleave.
MaxRaceFiles == 2
RaceTitles == {"Sale"}
RaceImages == StrayImages \cup {NoImage}
NextGalleryRace ==
  \/ \E k \in Editors : SlideArrivals(k, RaceTitles, RaceImages, MaxRaceFiles)
  \/ SlideSteps

SpecGalleryRace == Init /\ [][NextGalleryRace]_vars

NextTotals ==
  /\ calc = NoCalc
  /\ \E items \in PricedItemLists, attrs \in DeliveryAttributes :
        ComputeTotals(items, attrs)

SpecTotals == Init /\ [][NextTotals]_vars


(***************************************************************************)
(* Quantities used to state the properties.                                *)
(***************************************************************************)
RECURSIVE SumQty(_, _)
SumQty(items, S) ==
  IF S = {} THEN 0
  ELSE LET i == CHOOSE k \in S : TRUE
       IN  items[i].quantity + SumQty(items, S \ {i})

\* Total quantity of product pid over the line items of a persisted order.
QtyOfProduct(items, pid) ==
  SumQty(items, {i \in 1..Len(items) : items[i].product = pid})

\* Total quantity of product pid over the line items of a create request.
QtyRequested(items, pid) ==
  SumQty(items, {i \in 1..Len(items) : ReqProductId(items[i]) = pid})

RECURSIVE SumHeld(_, _)
SumHeld(S, pid) ==
  IF S = {} THEN 0
  ELSE LET j == CHOOSE k \in S : TRUE
       IN  QtyOfProduct(orders[j].items, pid) + SumHeld(S \ {j}, pid)

\* Quantity of product pid held by the orders that are not cancelled.
Held(pid) ==
  SumHeld({j \in 1..Len(orders) : orders[j].status # "cancelled"}, pid)

IsOwner(u, oid) == oid <= Len(orders) /\ orders[oid].user = u

\* Some request of the route op has been answered with the code and the
\* message, and its caller has not yet received the answer.
Answered(op, code, msg) ==
  \E c \in Slots : /\ race[c].pc = "done"
                   /\ race[c].op = op
                   /\ race[c].code = code
                   /\ race[c].msg = msg

\* The handler of the request that connection c carries, as a function of
\* the collections at its arrival.
Outcome(c) ==
  LET me == race[c] IN
  CASE me.op = "create" ->
         PostOrdersNotify(hist.stock, hist.orders, me.user, me.items, me.pm, me.trk,
                          me.mail)
    [] me.op = "status" ->
         PutOrderStatusNotify(hist.stock, hist.orders, me.user, me.oid, me.arg,
                              me.mail.customer)
    [] me.op = "cancel" ->
         PostOrderCancel(hist.stock, hist.orders, me.user, me.oid, me.arg)
    [] me.op = "refund" ->
         PostOrderRefund(hist.stock, hist.orders, me.user, me.oid, me.arg)
    [] me.op = "verify" -> PostVerifyPayment(hist.stock, hist.orders, me.oid)
    [] me.op = "delete" ->
         [orders |-> hist.orders] @@
         DeleteAdminProduct(hist.stock, me.user, me.pid, me.arg # "threw")
    [] me.op = "edit" ->
         [orders |-> hist.orders] @@
         PutAdminProduct(hist.stock, me.user, me.pid, me.arg)
    [] me.op = "add" ->
         [orders |-> hist.orders] @@
         PostAdminProduct(hist.stock, me.user, me.pid, me.arg, me.msg # "missing_fields")
    [] me.op = "put" ->
         [orders |-> hist.orders] @@
         PutProduct(hist.stock, me.user, me.pid, me.arg)
    [] me.op = "post" ->
         [orders |-> hist.orders] @@
         PostProduct(hist.stock, me.user, me.pid, me.arg, me.msg # "missing_fields")

(***************************************************************************)
(* The steps of a request that no other request interleaves compute the    *)
(* handler: when a request that arrived while no other was in flight has   *)
(* been answered, the collections and the response are those the handler   *)
(* gives as a function of the collections at the arrival.  The properties  *)
(* of single requests below are stated of these functions.                 *)
(***************************************************************************)
SerialAgreement ==
  \A c \in Slots :
     (race[c].pc = "done" /\ \A d \in Slots \ {c} : race[d].pc = "idle")
        => LET r == Outcome(c)
           IN  /\ stock = r.stock
               /\ orders = r.orders
               /\ race[c].code = r.resp.code
               /\ race[c].msg = r.resp.msg
               /\ race[c].code = 400 /\ race[c].op = "status"
                     => race[c].product = r.resp.product

(***************************************************************************)
(* C1. Inventory conservation: after any sequence of requests executed one *)
(* at a time, for every product, stock plus the quantity held by the       *)
(* orders that are not cancelled equals the initial stock.                 *)
(***************************************************************************)
\* Every request that arrived has been answered.
AllAnswered == \A c \in Slots : race[c].pc \in {"idle", "done"}

C1_Conservation ==
  AllAnswered => \A p \in DOMAIN stock : stock[p] + Held(p) = InitStock

(***************************************************************************)
(* C2. Product stock is never negative in any state reachable by requests  *)
(* executed one at a time.                                                 *)
(***************************************************************************)
C2_StockNonNegative ==
  \A p \in DOMAIN stock : stock[p] >= 0

(***************************************************************************)
(* C4. A create request whose every line item asks for no more than the    *)
(* current stock of its product succeeds: the order is persisted pending,  *)
(* the response is a success, and each product's stock decreases by the    *)
(* quantity ordered of it.                                                 *)
(***************************************************************************)
Sufficient(items) ==
  \A i \in 1..Len(items) :
     /\ ProductExists(stock, ReqProductId(items[i]))
     /\ items[i].quantity <= stock[ReqProductId(items[i])]

\* r, the outcome of the create request, is a success.
CreatedOk(items, r) ==
  /\ r.resp.code = 201
  /\ Len(r.orders) = Len(orders) + 1
  /\ r.orders[Len(r.orders)].status = "pending"
  /\ \A p \in DOMAIN stock : r.stock[p] = stock[p] - QtyRequested(items, p)

SomeItemFails(items) ==
  \E i \in 1..Len(items) :
     \/ ReqProductId(items[i]) = NoId
     \/ ~ProductExists(stock, ReqProductId(items[i]))
     \/ items[i].quantity > stock[ReqProductId(items[i])]

Refused(r) ==
  /\ r.resp.code = 400
  /\ r.orders = orders
  /\ r.stock = stock

C5_CreateAllOrNothing ==
  \A q \in CreateRequests :
     SomeItemFails(q[2]) =>
        Refused(PostOrders(stock, orders, q[1], q[2], q[3][1], q[3][2]))

\* The part of C5 that holds: such a request persists no order and changes
\* no stock, and it is answered 400 unless the first item that fails has a
\* product id that is no ObjectId, which is answered 500.
FirstFailureCasts(items) ==
  ValidateItems(items, 1, stock) # "cast_error"

CreateRefusalsClean ==
  \A q \in CreateRequests :
     SomeItemFails(q[2]) =>
        LET r == PostOrders(stock, orders, q[1], q[2], q[3][1], q[3][2])
        IN  /\ r.orders = orders
            /\ r.stock = stock
            /\ r.resp.code = IF FirstFailureCasts(q[2]) THEN 400 ELSE 500

(***************************************************************************)
(* C6. A cancel request by the owner of a pending order sets the status to *)
(* cancelled, records the given reason in the order and increases the      *)
(* stock of each line item's product by the item's quantity.               *)
(***************************************************************************)
Released(oid, r) ==
  /\ r.orders[oid].status = "cancelled"
  /\ \A p \in DOMAIN stock :
        r.stock[p] = stock[p] + QtyOfProduct(orders[oid].items, p)

ReasonRecorded(oid, reason, r) ==
  /\ "cancellationReason" \in DOMAIN r.orders[oid]
  /\ r.orders[oid].cancellationReason = reason

C6_CancelRecordsReason ==
  \A u \in Users, oid \in 1..Len(orders), reason \in Reasons :
     (IsOwner(u, oid) /\ orders[oid].status = "pending")
        => /\ Released(oid, PostOrderCancel(stock, orders, u, oid, reason))
           /\ ReasonRecorded(oid, reason,
                             PostOrderCancel(stock, orders, u, oid, reason))

(***************************************************************************)
(* C7. A cancel request for an order that is not pending changes neither   *)
(* the order nor any stock, and the owner is answered 400; so a second     *)
(* cancel of the same order fails and restores no stock.                   *)
(***************************************************************************)
CancelRefused(u, oid, r) ==
  /\ r.orders = orders
  /\ r.stock = stock
  /\ r.resp.code # 200
  /\ IsOwner(u, oid) => r.resp.code = 400

C7_CancelOnlyPending ==
  \A u \in Users, oid \in 1..Len(orders), reason \in Reasons :
     orders[oid].status # "pending"
        => CancelRefused(u, oid, PostOrderCancel(stock, orders, u, oid, reason))

\* The owner's cancel of an order that is already cancelled was refused, the
\* stock the first cancel restored is still there.
C7_Witness ==
  /\ Answered("cancel", 400, "not_pending")
  /\ Len(orders) = 1
  /\ orders[1].status = "cancelled"
  /\ \A p \in DOMAIN stock : stock[p] = InitStock

(***************************************************************************)
(* C8. Round trip: cancelling an order that holds stock and then, with no  *)
(* request in between, setting its status to a value other than cancelled  *)
(* leaves every line item's product with the stock it had before the       *)
(* cancellation.                                                           *)
(***************************************************************************)
\* The outcomes of the ways to cancel order oid from the current state.
Cancellations(oid) ==
  {PutOrderStatus(stock, orders, a, oid, "cancelled") : a \in Admins} \cup
  (IF orders[oid].status = "pending"
   THEN {PostOrderCancel(stock, orders, orders[oid].user, oid, reason) :
           reason \in Reasons}
   ELSE {})

StockRestored(oid, r) ==
  \A i \in 1..Len(orders[oid].items) :
     LET p == orders[oid].items[i].product
     IN  ProductExists(stock, p) => r.stock[p] = stock[p]

C8_RoundTrip ==
  \A oid \in 1..Len(orders) :
     orders[oid].status # "cancelled" =>
        \A c \in Cancellations(oid), a \in Admins,
           status \in StatusInputs \ {"cancelled"} :
              StockRestored(oid, PutOrderStatus(c.stock, c.orders, a, oid, status))

(***************************************************************************)
(* C9. A status update by an administrator from a status other than        *)
(* cancelled to cancelled increases the stock of each line item's product  *)
(* by the item's quantity and leaves the order cancelled.                  *)
(***************************************************************************)
C9_AdminCancelReleases ==
  \A a \in Admins, oid \in 1..Len(orders) :
     orders[oid].status # "cancelled"
        => Released(oid, PutOrderStatus(stock, orders, a, oid, "cancelled"))

\* An administrator cancelled an order of two different products.
C9_Witness ==
  /\ Answered("status", 200, "ok")
  /\ \E c \in Slots : race[c].oid = 1 /\ race[c].effect = "release"
  /\ orders[1].status = "cancelled"
  /\ Len(orders[1].items) = 2
  /\ orders[1].items[1].product # orders[1].items[2].product
  /\ \A p \in DOMAIN stock :
        stock[p] = hist.stock[p] + QtyOfProduct(orders[1].items, p)

(***************************************************************************)
(* C10. A status update that does not cross the cancellation boundary      *)
(* (previous and new status both other than cancelled, or both cancelled)  *)
(* leaves every product's stock unchanged.                                 *)
(***************************************************************************)
StockUnchanged(r) == r.stock = stock

C10_NoBoundaryNoStockChange ==
  \A u \in Users, oid \in 1..Len(orders), status \in StatusInputs :
     ((orders[oid].status = "cancelled") <=> (status = "cancelled"))
        => StockUnchanged(PutOrderStatus(stock, orders, u, oid, status))

\* A status update moved an order that holds stock to another status than
\* cancelled without running a stock loop.
C10_Witness ==
  /\ Answered("status", 200, "ok")
  /\ \A c \in Slots : race[c].effect = "none"
  /\ stock = hist.stock
  /\ Len(orders) = 1
  /\ orders[1].status = "delivered"
  /\ \E p \in DOMAIN stock : stock[p] < InitStock

(***************************************************************************)
(* C11. A status update by an administrator that moves a cancelled order   *)
(* to another status while the product of some line item has less stock    *)
(* than the item asks is answered 400, the response names a product of the *)
(* order that lacks stock, and the persisted status remains cancelled.     *)
(***************************************************************************)
StockShort(oid) ==
  \E i \in 1..Len(orders[oid].items) :
     /\ ProductExists(stock, orders[oid].items[i].product)
     /\ stock[orders[oid].items[i].product] < orders[oid].items[i].quantity

\* r refuses the reinstatement of order oid: 400, the product named is one
\* of the order's whose stock, as the request leaves it, is below the
\* quantity of a line item, and the order is still cancelled.
ReinstateRefused(oid, r) ==
  /\ r.resp.code = 400
  /\ \E i \in 1..Len(orders[oid].items) :
        /\ orders[oid].items[i].product = r.resp.product
        /\ r.stock[r.resp.product] < orders[oid].items[i].quantity
  /\ r.orders[oid].status = "cancelled"

C11_ReinstateFailsWhenShort ==
  \A a \in Admins, oid \in 1..Len(orders), status \in StatusInputs \ {"cancelled"} :
     (orders[oid].status = "cancelled" /\ StockShort(oid))
        => ReinstateRefused(oid, PutOrderStatus(stock, orders, a, oid, status))

\* A reinstatement was refused for lack of stock of the product named; the
\* order is still cancelled.
C11_Witness ==
  \E c \in Slots :
    LET me == race[c] IN
    /\ me.pc = "done" /\ me.op = "status" /\ me.code = 400 /\ me.msg = "insufficient"
    /\ me.effect = "reapply"
    /\ orders[me.oid].status = "cancelled"
    /\ \E i \in 1..Len(orders[me.oid].items) :
          /\ orders[me.oid].items[i].product = me.product
          /\ hist.stock[me.product] < orders[me.oid].items[i].quantity

(***************************************************************************)
(* C12. A create, cancel, refund or status update request that is answered *)
(* 400 has changed no product's stock and no order.                        *)
(***************************************************************************)
\* r is not a 400, or it left the two collections as they were.
NoMutationIf400(r) ==
  r.resp.code = 400 => (r.stock = stock /\ r.orders = orders)

C12_NoMutationOn400 ==
  /\ \A q \in CreateRequests :
        NoMutationIf400(PostOrders(stock, orders, q[1], q[2], q[3][1], q[3][2]))
  /\ \A u \in Users, oid \in 1..Len(orders) :
        /\ \A status \in StatusInputs :
              NoMutationIf400(PutOrderStatus(stock, orders, u, oid, status))
        /\ \A reason \in Reasons :
              NoMutationIf400(PostOrderCancel(stock, orders, u, oid, reason))
        /\ \A bank \in BankDetails :
              NoMutationIf400(PostOrderRefund(stock, orders, u, oid, bank))

(***************************************************************************)
(* C13. A refund submission by the owner succeeds only for a cancelled     *)
(* order: then it records the bank details and leaves the status and every *)
(* stock unchanged; for an order in another status it is answered 400 and  *)
(* records nothing.                                                        *)
(***************************************************************************)
RefundRecorded(oid, bank, r) ==
  /\ r.resp.code = 200
  /\ "refundDetails" \in DOMAIN r.orders[oid]
  /\ r.orders[oid].refundDetails = bank
  /\ r.orders[oid].status = orders[oid].status
  /\ r.stock = stock

RefundRefused(r) ==
  /\ r.resp.code = 400
  /\ r.orders = orders
  /\ r.stock = stock

C13_RefundOnlyCancelled ==
  \A u \in FlowUsers, oid \in 1..Len(orders), bank \in BankDetails :
     IsOwner(u, oid) =>
        IF orders[oid].status = "cancelled"
        THEN RefundRecorded(oid, bank, PostOrderRefund(stock, orders, u, oid, bank))
        ELSE RefundRefused(PostOrderRefund(stock, orders, u, oid, bank))

(***************************************************************************)
(* C14. In every reachable state an order whose refund details are set has *)
(* status cancelled.                                                       *)
(***************************************************************************)
C14_RefundedIsCancelled ==
  \A oid \in 1..Len(orders) :
     "refundDetails" \in DOMAIN orders[oid] => orders[oid].status = "cancelled"

(***************************************************************************)
(* C15. The status of a persisted order changes only through a cancel by   *)
(* its owner or a status update by an administrator: no other request, and *)
(* no request of another caller, changes it.                               *)
(***************************************************************************)
\* r leaves every persisted order with the status it has.
StatusesKept(r) ==
  /\ Len(r.orders) >= Len(orders)
  /\ \A oid \in 1..Len(orders) : r.orders[oid].status = orders[oid].status

C15_StatusOnlyByOwnerOrAdmin ==
  /\ \A oid \in 1..Len(orders) :
        StatusesKept(PostVerifyPayment(stock, orders, oid))
  /\ \A u \in FlowUsers, oid \in 1..Len(orders) :
        /\ \A bank \in BankDetails :
              StatusesKept(PostOrderRefund(stock, orders, u, oid, bank))
        /\ Role(u) # "admin" =>
              \A status \in StatusInputs :
                 StatusesKept(PutOrderStatus(stock, orders, u, oid, status))
        /\ ~IsOwner(u, oid) =>
              \A reason \in Reasons :
                 StatusesKept(PostOrderCancel(stock, orders, u, oid, reason))
  /\ \A q \in FlowCreateRequests :
        StatusesKept(PostOrdersNotify(stock, orders, q[1], q[2], q[3][1], q[3][2], q[4]))

(***************************************************************************)
(* C18. Notification failures are isolated: the response and the persisted *)
(* effects of a create request and of a status update are the same whether *)
(* each mail is sent, returns a failure result or throws.  The requests are *)
(* those that arrive when the response before has been received.           *)
(***************************************************************************)
C18_MailFailuresIsolated ==
  Quiet =>
  /\ \A q \in FlowCreateBodies, m \in MailPairs :
        PostOrdersNotify(stock, orders, q[1], q[2], q[3][1], q[3][2], m)
          = PostOrdersNotify(stock, orders, q[1], q[2], q[3][1], q[3][2], AllSent)
  /\ \A u \in FlowUsers, oid \in 1..Len(orders), status \in StatusInputs,
        m \in MailOutcomes :
           PutOrderStatusNotify(stock, orders, u, oid, status, m)
             = PutOrderStatusNotify(stock, orders, u, oid, status, "sent")

\* An order was created and answered 201 although the mail to the customer
\* threw and the mail to the administrator returned a failure.
C18_Witness ==
  /\ \E c \in Slots : /\ race[c].pc = "done" /\ race[c].op = "create"
                       /\ race[c].code = 201
                       /\ race[c].mail = [customer |-> "threw", admin |-> "failed"]
  /\ Len(orders) = 1
  /\ orders[1].status = "pending"
  /\ \A p \in DOMAIN stock : stock[p] = InitStock - QtyOfProduct(orders[1].items, p)

(***************************************************************************)
(* C19. Authorization failures change nothing: a status update by a caller *)
(* who is not an administrator, and a cancel or refund by a caller who is  *)
(* not the owner (an administrator included), is answered 403 and leaves   *)
(* the orders and every stock unchanged.  The requests are those that      *)
(* arrive when the response before has been received.                      *)
(***************************************************************************)
Denied(r) ==
  /\ r.resp.code = 403
  /\ r.orders = orders
  /\ r.stock = stock

C19_DeniedChangesNothing ==
  Quiet =>
  \A u \in FlowUsers, oid \in 1..Len(orders) :
     /\ Role(u) # "admin" =>
           \A status \in StatusInputs :
              Denied(PutOrderStatus(stock, orders, u, oid, status))
     /\ ~IsOwner(u, oid) =>
           /\ \A reason \in Reasons :
                 Denied(PostOrderCancel(stock, orders, u, oid, reason))
           /\ \A bank \in BankDetails :
                 Denied(PostOrderRefund(stock, orders, u, oid, bank))

\* A refund submission for a cancelled order by a caller who is not its
\* owner was answered 403.
C19_Witness ==
  /\ Answered("refund", 403, "denied")
  /\ Len(orders) = 1
  /\ orders[1].status = "cancelled"
  /\ \A p \in DOMAIN stock : stock[p] = InitStock

(***************************************************************************)
(* C16. With integer prices, quantities and unit delivery charges:         *)
(* subtotal is the sum of price x quantity over the line items;            *)
(* deliveryCharges is 0 when subtotal >= 1000 and otherwise the sum, over  *)
(* the items whose product is eligible, of the unit charge x quantity; and *)
(* totalAmount = subtotal + deliveryCharges.                               *)
(***************************************************************************)
RECURSIVE SumOver(_, _)
SumOver(f, S) ==
  IF S = {} THEN 0
  ELSE LET i == CHOOSE k \in S : TRUE IN f[i] + SumOver(f, S \ {i})

Eligible(item, attrs) == attrs[item.product].deliveryChargesApplicable # "false"

C16_Totals ==
  calc # NoCalc =>
     LET items == calc.items
         amounts == [i \in 1..Len(items) |-> items[i].price * items[i].quantity]
         charges == [i \in 1..Len(items) |->
                       calc.attrs[items[i].product].deliveryCharges * items[i].quantity]
         eligible == {i \in 1..Len(items) : Eligible(items[i], calc.attrs)}
     IN  /\ calc.totals.subtotal = SumOver(amounts, 1..Len(items))
         /\ calc.totals.deliveryCharges =
               IF calc.totals.subtotal >= 1000 THEN 0 ELSE SumOver(charges, eligible)
         /\ calc.totals.totalAmount =
               calc.totals.subtotal + calc.totals.deliveryCharges

\* One eligible unit at price 999 and charge 50: charges 50, total 1049.
C16_Witness ==
  /\ calc # NoCalc
  /\ Len(calc.items) = 1
  /\ calc.items[1].quantity = 1 /\ calc.items[1].price = 999
  /\ calc.attrs[calc.items[1].product].deliveryCharges = 50
  /\ Eligible(calc.items[1], calc.attrs)
  /\ calc.totals = [subtotal |-> 999, deliveryCharges |-> 50, totalAmount |-> 1049]

(***************************************************************************)
(* C17. No two persisted orders share a tracking code: a create request    *)
(* whose generated code equals that of an existing order is answered with  *)
(* an internal error, persists no order and decrements no stock.           *)
(***************************************************************************)
TrackingCodesDistinct ==
  \A i, j \in 1..Len(orders) :
     orders[i].trackingNumber = orders[j].trackingNumber => i = j

\* r is the failure of the create request: 500 and nothing changed.
CreateFailed(r) ==
  /\ r.resp.code = 500
  /\ r.orders = orders
  /\ r.stock = stock

C17_TrackingUnique ==
  /\ TrackingCodesDistinct
  /\ \A q \in CreateRequests :
        (ValidateItems(q[2], 1, stock) = "ok" /\ q[3][2] \in UsedCodes)
           => CreateFailed(PostOrders(stock, orders, q[1], q[2], q[3][1], q[3][2]))

\* A create request drew the code of the order that exists and failed on
\* the unique index; the stock is what the first order left.
C17_Witness ==
  /\ Answered("create", 500, "duplicate_key")
  /\ Len(orders) = 1
  /\ orders[1].status = "pending"
  /\ \A p \in DOMAIN stock : stock[p] = InitStock - QtyOfProduct(orders[1].items, p)

(***************************************************************************)
(* C20. Partial commit on reinstate: when a status update from cancelled   *)
(* to another status stops at the first line item whose product lacks      *)
(* stock, the products of the items before it stay decremented by their    *)
(* quantities and the order stays cancelled.                               *)
(***************************************************************************)
\* r is the refusal at item k: the stock is the stock before less the
\* quantities of the items before k, and the product of item k lacks stock.
StoppedAt(oid, k, r) ==
  LET items == orders[oid].items IN
  /\ items[k].product = r.resp.product
  /\ r.stock[items[k].product] < items[k].quantity
  /\ \A p \in DOMAIN stock :
        r.stock[p] = stock[p] - QtyOfProduct(SubSeq(items, 1, k - 1), p)

C20_ReinstatePartialCommit ==
  \A a \in Admins, oid \in 1..Len(orders), status \in StatusInputs \ {"cancelled"} :
     (/\ orders[oid].status = "cancelled"
      /\ PutOrderStatus(stock, orders, a, oid, status).resp.code = 400)
        => /\ PutOrderStatus(stock, orders, a, oid, status).orders = orders
           /\ \E k \in 1..Len(orders[oid].items) :
                 StoppedAt(oid, k, PutOrderStatus(stock, orders, a, oid, status))

\* A reinstatement was refused at the second item: the product of the first
\* item is decremented, the order is still cancelled.
C20_Witness ==
  \E c \in Slots :
    LET me == race[c] IN
    /\ me.pc = "done" /\ me.op = "status" /\ me.code = 400
    /\ me.effect = "reapply"
    /\ orders[me.oid].status = "cancelled"
    /\ Len(orders[me.oid].items) = 2
    /\ LET first == orders[me.oid].items[1]
       IN  /\ first.product # me.product
           /\ stock[first.product] = hist.stock[first.product] - first.quantity
           /\ stock[me.product] = hist.stock[me.product]

(***************************************************************************)
(* C21. Release tolerates deleted products: a cancellation (customer       *)
(* cancel or status update to cancelled by an administrator) of an order   *)
(* with a line item whose product no longer exists succeeds, the order     *)
(* becomes cancelled and the stock of every other item's product increases *)
(* by the item's quantity.                                                 *)
(***************************************************************************)
HasDeletedProduct(oid) ==
  \E i \in 1..Len(orders[oid].items) :
     ~ProductExists(stock, orders[oid].items[i].product)

\* r is a successful cancellation of order oid: the products that exist
\* get the quantities of their items back, no product appears or vanishes.
ReleasedExisting(oid, r) ==
  /\ r.resp.code = 200
  /\ r.orders[oid].status = "cancelled"
  /\ DOMAIN r.stock = DOMAIN stock
  /\ \A p \in DOMAIN stock :
        r.stock[p] = stock[p] + QtyOfProduct(orders[oid].items, p)

C21_ReleaseToleratesDeleted ==
  \A oid \in 1..Len(orders) :
     HasDeletedProduct(oid) =>
        /\ orders[oid].status # "cancelled" =>
              \A a \in Admins :
                 ReleasedExisting(oid, PutOrderStatus(stock, orders, a, oid, "cancelled"))
        /\ orders[oid].status = "pending" =>
              \A reason \in Reasons :
                 ReleasedExisting(oid, PostOrderCancel(stock, orders, orders[oid].user,
                                                      oid, reason))

\* An order of a deleted product and of a product that exists was
\* cancelled by its owner: the product that exists has its quantity back.
C21_Witness ==
  \E c \in Slots :
    LET me == race[c] IN
    /\ me.pc = "done" /\ me.op = "cancel" /\ me.code = 200
    /\ me.effect = "release"
    /\ orders[me.oid].status = "cancelled"
    /\ Len(orders[me.oid].items) = 2
    /\ ~ProductExists(stock, orders[me.oid].items[1].product)
    /\ ProductExists(stock, orders[me.oid].items[2].product)
    /\ LET second == orders[me.oid].items[2]
       IN  stock[second.product] = hist.stock[second.product] + second.quantity

(***************************************************************************)
(* C24. A status update by an administrator that fails because the status  *)
(* asked is outside the enumeration (the save is rejected) leaves the      *)
(* order's persisted status and every product's stock as before.           *)
(***************************************************************************)
C24_BadStatusChangesNothing ==
  \A a \in Admins, oid \in 1..Len(orders), status \in StatusInputs \ OrderStatuses :
     LET r == PutOrderStatus(stock, orders, a, oid, status)
     IN  r.resp.code = 500 =>
            /\ r.orders[oid].status = orders[oid].status
            /\ r.stock = stock

(***************************************************************************)
(* C23. A create request answered 500 has persisted no order and changed   *)
(* no stock, also when a product that passed validation is deleted before  *)
(* the decrement loop reaches it.  Stated over the interleaved requests:    *)
(* every persisted order is that of a request still running or answered    *)
(* 201, and a request answered 500 saved no decrement.                     *)
(***************************************************************************)
OrdersAccounted ==
  Len(orders) =
    Cardinality({c \in Clients :
                   \/ race[c].pc \in {"find", "write", "notify", "mailCustomer",
                                       "mailAdmin"}
                   \/ race[c].code = 201})

C23_NothingPersistedOn500 ==
  /\ OrdersAccounted
  /\ \A c \in Clients : race[c].code = 500 => race[c].wrote = {}

(***************************************************************************)
(* C22. The stock of an order is released at most once: for any            *)
(* interleaving of a customer cancel and a status update to cancelled on   *)
(* the same order that holds stock, each line item's product is increased  *)
(* by the item's quantity exactly once in total.  Stated of the two        *)
(* requests when both have been answered: hist holds the collections at    *)
(* the arrival of the first of them.                                       *)
(***************************************************************************)
\* Connection c carried a cancel and d a status update to cancelled of the
\* same order, which held stock when the first of them arrived; both have
\* been answered and the order is cancelled.
CancelRaceOver(c, d) ==
  /\ race[c].pc = "done" /\ race[c].op = "cancel"
  /\ race[d].pc = "done" /\ race[d].op = "status" /\ race[d].arg = "cancelled"
  /\ race[c].oid = race[d].oid
  /\ race[c].oid \in 1..Len(hist.orders)
  /\ hist.orders[race[c].oid].status # "cancelled"
  /\ orders[race[c].oid].status = "cancelled"

C22_ReleasedOnce ==
  \A c, d \in Clients :
     CancelRaceOver(c, d)
        => \A p \in DOMAIN stock :
              stock[p] = hist.stock[p] + QtyOfProduct(orders[race[c].oid].items, p)

\* The handler of the request that connection k carries, as a function of
\* the accounts at its arrival; sent is the outcome of its mail.
AccountOutcome(k, sent) ==
  LET me == resetreq[k]
      id == IF me.id = "none" THEN First(AccountIds \ DOMAIN pwd.before) ELSE me.id
  IN  CASE me.op = "forgot" -> ForgotPassword(pwd.before, now, me.email, me.otp, sent)
        [] me.op = "verify" -> VerifyOtp(pwd.before, now, me.email, me.otp, me.token)
        [] me.op = "reset" -> ResetPassword(pwd.before, now, me.token, me.password)
        [] me.op = "change" -> ChangePassword(pwd.before, id, me.current, me.password)
        [] me.op = "register" -> Register(pwd.before, id, me.email, me.password)
        [] me.op = "update" -> UpdateProfile(pwd.before, id, me.email)

\* The steps of an account request that no other request interleaves
\* compute the handler.
AccountAgreement ==
  \A k \in Callers :
     (resetreq[k].pc = "done" /\ \A j \in Callers \ {k} : resetreq[j].pc = "idle")
        => \E sent \in BOOLEAN :
              LET r == AccountOutcome(k, sent)
              IN  accounts = r.accounts /\ resetreq[k].code = r.code

(***************************************************************************)
(* C25. Password-reset credentials are single-use: after a verify-otp      *)
(* that succeeded, a second verify-otp with the same email and code fails; *)
(* after a reset-password that succeeded, a second reset-password with the *)
(* same token fails.  Stated of two requests sent one after the other from *)
(* every reachable state, the second at once or any time later, and of two *)
(* requests in flight together: no two requests that presented the same    *)
(* credential and read the same stored code or token are both answered     *)
(* 200.                                                                    *)
(***************************************************************************)
Later == {d * TICK : d \in 0..MaxTicks}

\* The requests on connections a and b presented the same credential, read
\* the same stored credential of the same user and were both answered 200.
BothRedeemed(a, b) ==
  /\ resetreq[a].pc = "done" /\ resetreq[a].code = 200
  /\ resetreq[b].pc = "done" /\ resetreq[b].code = 200
  /\ resetreq[a].op \in {"verify", "reset"}
  /\ resetreq[a].op = resetreq[b].op
  /\ resetreq[a].email = resetreq[b].email
  /\ IF resetreq[a].op = "verify" THEN resetreq[a].otp = resetreq[b].otp
     ELSE resetreq[a].token = resetreq[b].token
  /\ resetreq[a].id = resetreq[b].id
  /\ resetreq[a].seen = resetreq[b].seen

\* A credential that a request redeemed is refused to the next request.
SingleUseInTurn ==
  /\ \A email \in EmailInputs, otp \in OtpInputs :
        LET first == VerifyOtp(accounts, now, email, otp, pwd.minted + 1)
        IN  first.code = 200
              => \A d \in Later :
                    VerifyOtp(first.accounts, now + d, email, otp,
                              pwd.minted + 2).code = 400
  /\ \A token \in TokenInputs, password \in PasswordInputs :
        LET first == ResetPassword(accounts, now, token, password)
        IN  first.code = 200
              => \A d \in Later, again \in PasswordInputs :
                    ResetPassword(first.accounts, now + d, token, again).code = 400

C25_SingleUse ==
  /\ SingleUseInTurn
  /\ \A a, b \in Callers : a # b => ~BothRedeemed(a, b)

(***************************************************************************)
(* C26. Ordering of the password reset: verify-otp succeeds only with the  *)
(* code that forgot-password stored last for that user, no more than 5     *)
(* minutes before; reset-password changes a user's password only with a    *)
(* token that a verify-otp issued to that user no more than 1 hour before. *)
(***************************************************************************)
C26_Ordering ==
  /\ \A email \in EmailInputs, otp \in OtpInputs :
        LET r == VerifyOtp(accounts, now, email, otp, pwd.minted + 1)
        IN  r.code = 200
              => /\ pwd.otpLog[r.id].otp = otp
                 /\ pwd.otpLog[r.id].at # NoDate
                 /\ now - pwd.otpLog[r.id].at <= OTP_LIFETIME
  /\ \A token \in TokenInputs, password \in PasswordInputs :
        LET r == ResetPassword(accounts, now, token, password)
        IN  r.accounts # accounts
              => /\ token \in DOMAIN pwd.tokenLog
                 /\ pwd.tokenLog[token].id = r.id
                 /\ now - pwd.tokenLog[token].at <= TOKEN_LIFETIME
                 /\ \A id \in (DOMAIN accounts) \ {r.id} : r.accounts[id] = accounts[id]

(***************************************************************************)
(* C27. When the mail with the code cannot be sent, forgot-password clears *)
(* the stored code and its expiry and answers 500; no verify-otp for that  *)
(* user succeeds until a later forgot-password completes successfully.     *)
(* Stated of the handler as a function, and of the requests in flight: a   *)
(* verify-otp that found the user's document did not find it while the     *)
(* last forgot-password answered for that user was one that failed, and    *)
(* none redeemed the code of a forgot-password that failed.                *)
(***************************************************************************)
\* The handler whose mail fails answers 500 and leaves no code stored.
FailedMailClears ==
  \A email \in EmailStrings, otp \in Otps :
     LET r == ForgotPassword(accounts, now, email, otp, FALSE)
     IN  r.id \in DOMAIN accounts
           => /\ r.code = 500
              /\ r.accounts[r.id].otp = NoOtp
              /\ r.accounts[r.id].otpExpires = NoDate

\* No verify-otp found a code of the user while the last forgot-password
\* answered for the user was one that failed.
NoVerifyWhileBlocked ==
  \A k \in Callers :
     (resetreq[k].op = "verify" /\ resetreq[k].id \in DOMAIN accounts)
        => ~resetreq[k].blocked

\* No verify-otp was answered 200 for the code of a forgot-password that
\* was answered 500.
NoFailedCodeRedeemed ==
  \A a, b \in Callers :
     ~(/\ resetreq[a].op = "forgot" /\ resetreq[a].code = 500
       /\ resetreq[b].op = "verify" /\ resetreq[b].code = 200
       /\ resetreq[b].seen[3] = resetreq[a].seq)

C27_FailedMailClearsOtp ==
  /\ FailedMailClears
  /\ NoVerifyWhileBlocked
  /\ NoFailedCodeRedeemed

(***************************************************************************)
(* C28. A role update never removes the last administrator: whatever the   *)
(* interleaving of the role updates that administrators send, some user    *)
(* has the role admin in every reachable state.                            *)
(***************************************************************************)
C28_AdminRemains == \E m \in Members : roles[m] = "admin"

(***************************************************************************)
(* C29. After any sequence of add, update, delete and set-default requests *)
(* at most one address of the user is the default, and an address added to *)
(* an empty list becomes the default.                                      *)
(***************************************************************************)
Defaults(addrs) == {i \in DOMAIN addrs : addrs[i].isDefault}

C29_OneDefault ==
  /\ Cardinality(Defaults(book.addresses)) <= 1
  /\ Len(book.addresses) = 0
       => \A body \in AddressBodies, kept \in BOOLEAN :
             LET r == AddAddress(book.addresses, book.minted + 1, body, kept)
             IN  r.code = 200 => Len(r.addresses) = 1 /\ r.addresses[1].isDefault

\* Three addresses of which the second is the default.
C29_Witness ==
  /\ Len(book.addresses) = 3
  /\ Defaults(book.addresses) = {2}

(***************************************************************************)
(* C30. After an update of a slide, the upload of whose new image may have *)
(* failed or timed out after the old image was deleted, the image id of    *)
(* the persisted slide is the id of a file of the bucket.  Stated of the   *)
(* updates of a slide whose image was a file of the bucket before.         *)
(***************************************************************************)
C30_ImageExists ==
  (gallery.last.sid # 0 /\ gallery.last.held)
     => gallery.slides[gallery.last.sid].image \in gallery.files

(***************************************************************************)
(* C3. Check-then-act race: when the steps of two create requests for the  *)
(* same product interleave, both can pass the stock check before either    *)
(* decrements, both orders are persisted and the quantity ordered exceeds  *)
(* the stock that existed.  Stated as an invariant: when two requests that *)
(* each list no product twice have both been answered 201 and the orders   *)
(* hold more of a product than its initial stock, each request checked the *)
(* product before the other saved its decrement; the witness is a state    *)
(* where this oversale has happened.                                       *)
(***************************************************************************)
NoProductTwice(items) ==
  \A i, j \in 1..Len(items) :
     ReqProductId(items[i]) = ReqProductId(items[j]) => i = j

BothCreated ==
  /\ \A c \in Clients : race[c].pc = "done" /\ race[c].op = "create" /\ race[c].code = 201
  /\ Len(orders) = Cardinality(Clients)

\* The two requests together ordered more of p than the stock that existed.
RECURSIVE SumRequested(_, _)
SumRequested(S, p) ==
  IF S = {} THEN 0
  ELSE LET c == CHOOSE d \in S : TRUE
       IN  QtyRequested(race[c].items, p) + SumRequested(S \ {c}, p)

Oversold(p) == SumRequested(Clients, p) > InitStock

C3_OversoldOnlyByRace ==
  (BothCreated /\ \A c \in Clients : NoProductTwice(race[c].items))
     => \A p \in DOMAIN stock :
           Oversold(p) => \A c \in Clients : p \in race[c].early

\* Both requests passed the check of the same product before either saved
\* a decrement, both orders are persisted and hold more than the stock.
C3_Witness ==
  /\ BothCreated
  /\ \E p \in DOMAIN stock :
        /\ Oversold(p)
        /\ \A c \in Clients : p \in race[c].early /\ p \in race[c].wrote
        /\ \A c \in Clients :
              QtyRequested(race[c].items, p) <= InitStock
====
